---- MODULE Spec2Model ----
(***************************************************************************)
(* State-machine model of the DropCrate pipeline orchestrator:             *)
(*   services/job_manager.py  (Job, JobManager)                            *)
(*   services/pipeline.py     (run_pipeline, _process_with_semaphore,      *)
(*                             _process_one, _maybe_generate_rekordbox_xml)*)
(*   routers/upload.py        (upload_audio_for_item, _resume_pipeline)    *)
(*   routers/queue.py         (queue_start, queue_stop)                    *)
(*                                                                         *)
(* Scheduling is asyncio's: one event loop, a coroutine runs without       *)
(* interruption from one await to the next.  A task's position is the      *)
(* await it is suspended at, and every action runs the code from the       *)
(* return of that await up to the next one.  The stage collaborators       *)
(* (fetch_video_info, download_audio, ...) are external: a call either     *)
(* returns or raises, chosen nondeterministically.                         *)
(*                                                                         *)
(* Job.history is kept as its projections: the job-level events and, per   *)
(* item id, the events that carry that item id, each in emission order.    *)
(* The order between events of different items is not recorded.            *)
(***************************************************************************)
EXTENDS Integers, Sequences, FiniteSets, TLC

\* ---------------------------------------------------------------- bounds
NumItems == 2        \* items of the batch in Spec
NumAdmitItems == 4   \* items of the batch in SpecAdmit
NumResumeItems == 1  \* items of the batch in SpecUpload and SpecData
ExtraBroadcasts == 2 \* broadcasts beyond the history cap in SpecBus
LiveBroadcasts == 3  \* broadcasts after the first subscription may happen
MaxGets == 2         \* events a client takes from its queue in SpecManager

\* ------------------------------------------------------ program constants
MAX_CONCURRENT == 3
HISTORY_CAP == 500     \* JobManager.broadcast keeps the last 500 events
QUEUE_MAXSIZE == 200   \* asyncio.Queue(maxsize=200) of a subscriber

Max(a, b) == IF a >= b THEN a ELSE b
MaxItems == Max(Max(NumItems, NumAdmitItems), NumResumeItems)

Jobs == {"jobA", "jobB"}
ItemIds == 1..MaxItems
Tasks == Jobs \X (1..MaxItems)

\* The text of the exception a collaborator raises with, one per collaborator.
ExcMsgOf(stage) ==
  CASE stage = "metadata" -> "Network error"
    [] stage = "download" -> "Download blocked"
    [] stage = "fingerprint" -> "Fingerprint failed"
    [] stage = "analysis" -> "Analysis failed"
    [] stage = "normalize" -> "Loudnorm failed"
    [] stage = "transcode" -> "Transcode failed"
    [] stage = "tag" -> "Tagging failed"
    [] OTHER -> "Database is locked"
CancelledMsg == "Cancelled"
AttributeErrorMsg == "'Job' object has no attribute 'completed_ids'"

\* The fields of the Job dataclass.
JobFields == {"id", "cancel_requested", "history", "subscribers"}

\* getattr on a Job instance: a name that is not a field raises AttributeError.
JobHasAttr(name) == name \in JobFields

\* The video id taken from the URL (regex match, else sha1 prefix): a
\* function of the URL alone.
UrlSourceId(url) == [vid |-> url]

\* inbox_dir / ".dropcrate_tmp_<source_id>"
WorkDirOf(source_id) == [tmp |-> source_id]

\* QueueStartRequest.items: Field(min_length=1, max_length=10)
MAX_ITEMS == 10

NoItem == 0
NoCtx == [job_id |-> "none"]

VARIABLES
  req,               \* [Jobs -> batch request]   QueueStartRequest
  bpc,               \* [Jobs -> position of run_pipeline]
  cancel_requested,  \* [Jobs -> BOOLEAN]         Job.cancel_requested
  history,           \* [Jobs -> [job: Seq, item: [ItemIds -> Seq]]]  Job.history
  completed_ids,     \* [Jobs -> Seq]             Job.completed_ids (were it a field)
  sem,               \* [Jobs -> 0..MAX_CONCURRENT]  value of the batch's Semaphore
  pc,                \* [Tasks -> position of the item task]
  pending_uploads,   \* [ItemIds -> context or NoCtx]   _pending_uploads
  work_dirs,         \* set of working directories that exist on disk
  sidecars,          \* set of sidecar files written
  library_tracks,    \* set of rows of library_tracks
  rpc,               \* [Tasks -> position of the upload handler / resumed run]
  rctx,              \* [Tasks -> context held by the upload handler / resumed run]
  response,          \* last response of the upload endpoint
  calls,             \* [Tasks -> Seq]  collaborator calls of the item task that
                     \*   have returned, with their outcome (a recording mock)
  rcalls,            \* [Tasks -> Seq]  the same for the resumed run
  mock,              \* what the stage collaborators answer when they return
                     \*   (the return_value of the patched functions)
  subscribers,       \* [Jobs -> [client ids -> Seq]]  Job.subscribers: the
                     \*   content of each subscriber's queue, oldest first
  emitted,           \* [Jobs -> Nat]  how many times broadcast ran on the job
  joined_at,         \* [ClientIds -> Int]  emitted[j] at the time the client
                     \*   subscribed, -1 while the id is unused
  jobs,              \* set of job ids   the keys of JobManager._jobs
  cancel_returned,   \* [Jobs -> "none", "True" or "False"]  what the last
                     \*   cancel_job(j) returned
  received           \* [ClientIds -> Seq]  the events the client has taken
                     \*   from its queue, oldest first

vars == <<req, bpc, cancel_requested, history, completed_ids, sem, pc,
          pending_uploads, work_dirs, sidecars, library_tracks, rpc, rctx,
          response, calls, rcalls, mock, subscribers, emitted, joined_at,
          jobs, cancel_returned, received>>

\* ----------------------------------------------------------------- events
Evt(type, job_id, item_id, url, stage, error) ==
  [type |-> type, job_id |-> job_id, item_id |-> item_id, url |-> url,
   stage |-> stage, error |-> error, data |-> 0]

\* The events of test_job_manager.py: {"type": "event", "i": n}.
TestEvt(j, n) == [Evt("event", j, NoItem, NoItem, "", "") EXCEPT !.data = n]

QueueStartEvt(j) == Evt("queue-start", j, NoItem, NoItem, "", "")
QueueDoneEvt(j) == Evt("queue-done", j, NoItem, NoItem, "", "")
WarningEvt(j, msg) == Evt("warning", j, NoItem, NoItem, "", msg)
ItemStartEvt(j, it) == Evt("item-start", j, it.id, it.url, "", "")
ItemProgressEvt(j, it, stage) == Evt("item-progress", j, it.id, it.url, stage, "")
\* Mutant: the upload-needed event drops the exception text.
ItemUploadNeededEvt_NoText(j, it, msg) == Evt("item-upload-needed", j, it.id, it.url, "", "")
ItemUploadNeededEvt(j, it, msg) == Evt("item-upload-needed", j, it.id, it.url, "", msg)
ItemDoneEvt(j, it) == Evt("item-done", j, it.id, it.url, "", "")
ItemErrorEvt(j, it, msg) == Evt("item-error", j, it.id, it.url, "", msg)

TerminalTypes == {"item-done", "item-upload-needed", "item-error"}

EmptyHistory == [job |-> <<>>, item |-> [i \in ItemIds |-> <<>>]]

RECURSIVE SumLen(_, _)
\* The total length of the logs f[i], i in ids.
SumLen(f, ids) ==
  IF ids = {} THEN 0
  ELSE LET i == CHOOSE x \in ids : TRUE IN Len(f[i]) + SumLen(f, ids \ {i})

\* len(job.history)
HistoryLen(h) == Len(h.job) + SumLen(h.item, ItemIds)

\* seq[-n:]
LastN(seq, n) ==
  IF Len(seq) <= n THEN seq ELSE SubSeq(seq, Len(seq) - n + 1, Len(seq))

\* Mutant: the slice keeps the oldest events instead of the newest.
Broadcast_KeepsOldest(h, e) ==
  LET appended == IF e.item_id = NoItem
                    THEN [h EXCEPT !.job = Append(@, e)]
                    ELSE [h EXCEPT !.item[e.item_id] = Append(@, e)] IN
  IF HistoryLen(appended) > HISTORY_CAP
    THEN [appended EXCEPT !.job = SubSeq(@, 1, HISTORY_CAP)]
    ELSE appended

\* The history part of JobManager.broadcast on the history h of one job:
\* append, then keep the last HISTORY_CAP events.  Which events are the
\* oldest is recorded only among the job-level events, so the slice is
\* taken there; the item-level events of a batch of at most ten items stay
\* far below the cap.
Broadcast(h, e) ==
  LET appended == IF e.item_id = NoItem
                    THEN [h EXCEPT !.job = Append(@, e)]
                    ELSE [h EXCEPT !.item[e.item_id] = Append(@, e)] IN
  IF HistoryLen(appended) > HISTORY_CAP
    THEN [appended EXCEPT !.job = LastN(@, Len(@) - (HistoryLen(appended) - HISTORY_CAP))]
    ELSE appended

\* Mutant: progress() broadcasts whatever the flag says.
Progress_Always(h, j, it, stage) == Broadcast(h, ItemProgressEvt(j, it, stage))

\* progress() of _process_one: silent once the job's flag is set.
Progress(h, j, it, stage) ==
  IF cancel_requested[j] THEN h ELSE Broadcast(h, ItemProgressEvt(j, it, stage))

\* Mutant: progress() of the resumed run broadcasts each event twice.
ResumeProgress_Twice(h, ctx, stage) ==
  Broadcast(Broadcast(h, Evt("item-progress", ctx.job_id, ctx.item_id, ctx.url, stage, "")),
            Evt("item-progress", ctx.job_id, ctx.item_id, ctx.url, stage, ""))

\* progress() of _resume_pipeline: unconditional (the job always exists here).
ResumeProgress(h, ctx, stage) ==
  Broadcast(h, Evt("item-progress", ctx.job_id, ctx.item_id, ctx.url, stage, ""))

\* ---------------------------------------------------------------- helpers
ItemOf(t) == req[t[1]].items[t[2]]
TasksOf(j) == {t \in Tasks : t[1] = j /\ t[2] <= Len(req[j].items)}

InFlight == {"metadata", "download", "thumbnail", "fingerprint", "analysis",
             "normalize", "transcode", "tag", "persist"}
Finished == {"done", "upload_needed", "error"}

NoReq == [items |-> <<>>, normalize_enabled |-> FALSE, mode |-> "fast"]

\* DJTags: the preset of an item.  DefaultPreset is what make_request of the
\* test suite sends: genre "Other" (the "unset" sentinel), the rest empty.
DJTags(genre, energy, time, vibe) ==
  [genre |-> genre, energy |-> energy, time |-> time, vibe |-> vibe]
DefaultPreset == DJTags("Other", "", "", "")

RequestWith(n, norm, mode, preset) ==
  [items |-> [i \in 1..n |-> [id |-> i, url |-> i, preset_snapshot |-> preset]],
   normalize_enabled |-> norm, mode |-> mode, inbox_dir |-> "inbox"]

Request(n, norm, mode) == RequestWith(n, norm, mode, DefaultPreset)

\* ------------------------------------------------- collaborator answers
\* A title is the sequence of its whitespace-separated words.
Separators == {"-", "en-dash", "em-dash", "|"}

\* What fetch_video_info returns for a video: FAKE_VIDEO_INFO of the test
\* suite, and a video whose title has no separator.
InfoWithSeparator ==
  [title |-> <<"ARTBAT", "-", "Flame">>, uploader |-> "ARTBAT", thumbnail |-> TRUE]
InfoPlain ==
  [title |-> <<"Flame">>, uploader |-> "Some Channel", thumbnail |-> TRUE]

\* {"title": "Unknown Title", "id": source_id}: no uploader, no thumbnail.
MinimalInfo ==
  [title |-> <<"Unknown", "Title">>, uploader |-> "", thumbnail |-> FALSE]

\* What heuristic_classify returns: a genre it recognised, or nothing.
AutoTechno == DJTags("Techno", "High", "Peak", "Dark")
AutoNothing == DJTags("", "", "", "")

\* What try_match_music_metadata returns: None, or the matched release.
NoMatch == [matched |-> FALSE]
Matched == [matched |-> TRUE, artist |-> <<"ARTBAT", "&", "Guest">>,
            title |-> <<"Flame", "(Original", "Mix)">>]

MockOf(info, auto, match) == [info |-> info, auto |-> auto, match |-> match]

\* The mocks of _pipeline_patches: the fingerprint matches nothing.
DefaultMock == MockOf(InfoWithSeparator, AutoTechno, NoMatch)

\* The subscribers of the event stream: client ids are fresh uuids.
ClientIds == {"c1", "c2"}
NoSubscribers == [c \in {} |-> <<>>]

\* job.history after n direct broadcasts on a new job, n <= HISTORY_CAP.
Broadcasts(j, n) == [EmptyHistory EXCEPT !.job = [i \in 1..n |-> TestEvt(j, i)]]

\* The state after jobA was created and n events were broadcast on it while
\* nobody was subscribed.  at = "scheduled": by queue_start(r), which
\* registered the job and scheduled run_pipeline as a background task;
\* at = "created": by create_job alone, with no batch.
InitJob(r, m, at, n) ==
  /\ mock = m
  /\ subscribers = [j \in Jobs |-> NoSubscribers]
  /\ emitted = [j \in Jobs |-> IF j = "jobA" THEN n ELSE 0]
  /\ joined_at = [c \in ClientIds |-> -1]
  /\ jobs = {"jobA"}
  /\ cancel_returned = [j \in Jobs |-> "none"]
  /\ received = [c \in ClientIds |-> <<>>]
  /\ req = [j \in Jobs |-> IF j = "jobA" THEN r ELSE NoReq]
  /\ bpc = [j \in Jobs |-> IF j = "jobA" THEN at ELSE "none"]
  /\ cancel_requested = [j \in Jobs |-> FALSE]
  /\ history = [j \in Jobs |-> IF j = "jobA" THEN Broadcasts(j, n)
                                  ELSE EmptyHistory]
  /\ completed_ids = [j \in Jobs |-> <<>>]
  /\ sem = [j \in Jobs |-> MAX_CONCURRENT]
  /\ pc = [t \in Tasks |-> "idle"]
  /\ pending_uploads = [i \in ItemIds |-> NoCtx]
  /\ work_dirs = {}
  /\ sidecars = {}
  /\ library_tracks = {}
  /\ rpc = [t \in Tasks |-> "none"]
  /\ rctx = [t \in Tasks |-> NoCtx]
  /\ response = "none"
  /\ calls = [t \in Tasks |-> <<>>]
  /\ rcalls = [t \in Tasks |-> <<>>]

\* The state right after jobA was created.
InitState(r, m, at) == InitJob(r, m, at, 0)

InitWithMock(r, m) == InitState(r, m, "scheduled")

InitWith(r) == InitWithMock(r, DefaultMock)

\* The two batch settings of the test suite: dj-safe with normalization, and
\* fast without.
Init ==
  \E r \in {Request(NumItems, TRUE, "dj-safe"), Request(NumItems, FALSE, "fast")} :
    InitWith(r)


\* ------------------------------------------------------ computed values
\* bool(re.search(r"(\s-\s|\s\u2013\s|\s\u2014\s|\s\|\s)", raw_title)) on the
\* stripped title: a separator word with a word on either side.
HadSeparator(title) == \E k \in 2..(Len(title) - 1) : title[k] \in Separators

\* value.find(sep) of _split_artist_title, as a word index (0: not found).
FirstIndexOf(title, sep) ==
  LET hits == {k \in 2..(Len(title) - 1) : title[k] = sep} IN
  IF hits = {} THEN 0 ELSE CHOOSE k \in hits : \A m \in hits : k <= m

\* The separators are tried in this order; the first one found splits.
SeparatorOrder == <<"-", "en-dash", "em-dash", "|">>
SplitIndex(title) ==
  LET found == {n \in DOMAIN SeparatorOrder : FirstIndexOf(title, SeparatorOrder[n]) > 0} IN
  IF found = {} THEN 0
  ELSE FirstIndexOf(title, SeparatorOrder[CHOOSE n \in found : \A m \in found : n <= m])

\* normalize_from_youtube_title, without its junk removal, version
\* extraction and title casing: artist and title are the words on either
\* side of the separator, else the uploader and the whole title.
NormalizeTitle(title, uploader) ==
  LET k == SplitIndex(title) IN
  IF k = 0
    THEN [artist |-> IF uploader # "" THEN <<uploader>> ELSE <<"Unknown", "Artist">>,
          title |-> title, version |-> ""]
    ELSE [artist |-> SubSeq(title, 1, k - 1),
          title |-> SubSeq(title, k + 1, Len(title)), version |-> ""]

\* {"artist": "Unknown", "title": "Unknown", "version": ""}
UnknownNames == [artist |-> <<"Unknown">>, title |-> <<"Unknown">>, version |-> ""]

\* a or b on strings: the empty string (and None) is falsy.
OrElse(a, b) == IF a # "" THEN a ELSE b

\* Mutant: the classifier's genre wins over the preset.
EffectiveGenre_AutoFirst(preset, auto) ==
  OrElse(auto.genre, OrElse(preset.genre, "Other"))

\* effective_genre: the preset wins unless it is empty or the sentinel
\* "Other"; then the classifier's genre, else "Other".
EffectiveGenre(preset, auto) ==
  IF preset.genre # "" /\ preset.genre # "Other"
    THEN preset.genre
    ELSE OrElse(auto.genre, "Other")

\* effective_genre, effective_energy, effective_time, effective_vibe.
EffectiveTags(preset, auto) ==
  DJTags(EffectiveGenre(preset, auto),
         OrElse(preset.energy, OrElse(auto.energy, "")),
         OrElse(preset.time, OrElse(auto.time, "")),
         OrElse(preset.vibe, OrElse(auto.vibe, "")))

\* The classification stored after a metadata failure: the preset alone.
PresetTags(preset) ==
  DJTags(OrElse(preset.genre, "Other"), OrElse(preset.energy, ""),
         OrElse(preset.time, ""), OrElse(preset.vibe, ""))

\* effective_artist / effective_title after the fingerprint: the match when
\* there is one, else the names given as fallback.
EffectiveNames(match, names) ==
  IF match.matched
    THEN [artist |-> match.artist, title |-> match.title]
    ELSE [artist |-> names.artist, title |-> names.title]

\* ------------------------------------------------- pending resume context
\* The dict stored in _pending_uploads.  from = "metadata": the minimal
\* context of a metadata failure (info has only title and id, artist/title
\* "Unknown"); from = "download": the values computed before the download.
\* origin is not a key of the dict: it names the task that stored the
\* context, so that the run resumed from it can be told apart.
\* Mutant: nothing is stored.
Ctx_Nothing(t, from) == NoCtx
Ctx(t, from) ==
  [job_id |-> t[1],
   item_id |-> ItemOf(t).id,
   url |-> ItemOf(t).url,
   info |-> IF from = "metadata" THEN MinimalInfo ELSE mock.info,
   source_url |-> ItemOf(t).url,
   source_id |-> UrlSourceId(ItemOf(t).url),
   normalized |-> IF from = "metadata" THEN UnknownNames
                  ELSE NormalizeTitle(mock.info.title, mock.info.uploader),
   classification |-> IF from = "metadata" THEN PresetTags(ItemOf(t).preset_snapshot)
                      ELSE EffectiveTags(ItemOf(t).preset_snapshot, mock.auto),
   title_had_separator |-> IF from = "metadata" THEN FALSE
                           ELSE HadSeparator(mock.info.title),
   dj_defaults |-> ItemOf(t).preset_snapshot,
   work_dir |-> WorkDirOf(UrlSourceId(ItemOf(t).url)),
   inbox_dir |-> req[t[1]].inbox_dir,
   req |-> req[t[1]],
   origin |-> t]

\* The recording mock: the call awaited at position at returned or raised.
Returned(t, at, result) ==
  /\ calls' = [calls EXCEPT ![t] = Append(@, [stage |-> at, result |-> result])]
  /\ UNCHANGED <<rcalls, mock, subscribers, emitted, joined_at,
                   jobs, cancel_returned, received>>

ResumeReturned(o, at, result) ==
  /\ rcalls' = [rcalls EXCEPT ![o] = Append(@, [stage |-> at, result |-> result])]
  /\ UNCHANGED <<calls, mock, subscribers, emitted, joined_at,
                   jobs, cancel_returned, received>>

\* -------------------------------------------------------- queue_stop
\* JobManager.get_job(job_id) finds the job: self._jobs.get(job_id) is not
\* None.
JobExists(j) == j \in jobs

\* Mutant: cancel_job reports success for any job id.
CancelJobResult_AlwaysTrue(j) == "True"

\* What JobManager.cancel_job(job_id) returns.
CancelJobResult(j) == IF JobExists(j) THEN "True" ELSE "False"

\* JobManager.cancel_job(job_id): sets the flag of a registered job and
\* returns True; returns False for any other id, and does nothing else.
CancelJob(j) ==
  /\ cancel_requested' = IF JobExists(j)
                           THEN [cancel_requested EXCEPT ![j] = TRUE]
                           ELSE cancel_requested
  /\ cancel_returned' = [cancel_returned EXCEPT ![j] = CancelJobResult(j)]
  /\ UNCHANGED <<req, bpc, history, completed_ids, sem, pc, pending_uploads,
                 work_dirs, sidecars, library_tracks, rpc, rctx, response>>
  /\ UNCHANGED <<calls, rcalls, mock, subscribers, emitted, joined_at,
                 jobs, received>>

\* -------------------------------------------------------- run_pipeline
\* From the start of run_pipeline to its await on gather: queue-start is
\* broadcast, the semaphore is created and one item task per item is made.
RunPipelineStart(j) ==
  /\ bpc[j] = "scheduled"
  /\ bpc' = [bpc EXCEPT ![j] = "gathering"]
  /\ history' = [history EXCEPT ![j] = Broadcast(@, QueueStartEvt(j))]
  /\ sem' = [sem EXCEPT ![j] = MAX_CONCURRENT]
  /\ pc' = [t \in Tasks |-> IF t \in TasksOf(j) THEN "waiting" ELSE pc[t]]
  /\ UNCHANGED <<req, cancel_requested, completed_ids, pending_uploads,
                 work_dirs, sidecars, library_tracks, rpc, rctx, response>>
  /\ UNCHANGED <<calls, rcalls, mock, subscribers, emitted, joined_at,
                   jobs, cancel_returned, received>>

\* _maybe_generate_rekordbox_xml followed by the queue-done broadcast, on
\* the history h: the export is skipped when nothing completed or the
\* setting is off, and its failure is turned into a warning event.
ExportThenQueueDone(h, j, outcome) ==
  IF completed_ids[j] # <<>> /\ outcome = "fail"
    THEN Broadcast(Broadcast(h, WarningEvt(j, "Rekordbox XML generation failed")),
                   QueueDoneEvt(j))
    ELSE Broadcast(h, QueueDoneEvt(j))

\* gather returns once every item task has finished.  No item task ends
\* with an exception (_process_one catches Exception around all it does
\* after item-start), so the loop over the results broadcasts nothing.
\* _maybe_generate_rekordbox_xml then reads job.completed_ids before its
\* try block: on a Job without that attribute the AttributeError leaves
\* run_pipeline, and the queue-done broadcast is not reached.
GatherReturns(j) ==
  /\ bpc[j] = "gathering"
  /\ \A t \in TasksOf(j) : pc[t] \in Finished
  /\ IF ~JobHasAttr("completed_ids")
       THEN /\ bpc' = [bpc EXCEPT ![j] = "raised"]
            /\ UNCHANGED history
       ELSE /\ bpc' = [bpc EXCEPT ![j] = "done"]
            /\ \E outcome \in {"ok", "fail", "disabled"} :
                 history' = [history EXCEPT ![j] = ExportThenQueueDone(@, j, outcome)]
  /\ UNCHANGED <<req, cancel_requested, completed_ids, sem, pc, pending_uploads,
                 work_dirs, sidecars, library_tracks, rpc, rctx, response>>
  /\ UNCHANGED <<calls, rcalls, mock, subscribers, emitted, joined_at,
                   jobs, cancel_returned, received>>

\* ------------------------------------------------------- item task steps
\* The task leaves "async with sem": its position becomes final and the
\* semaphore is released.
Leave(t, final) ==
  /\ pc' = [pc EXCEPT ![t] = final]
  /\ sem' = [sem EXCEPT ![t[1]] = @ + 1]

\* Mutant: the handler logs the exception and broadcasts nothing.
RaiseInItem_Silent(t, msg, in_try) ==
  /\ UNCHANGED history
  /\ work_dirs' = IF in_try THEN work_dirs \ {WorkDirOf(UrlSourceId(ItemOf(t).url))}
                            ELSE work_dirs
  /\ pc' = [pc EXCEPT ![t] = "error"]
  /\ sem' = [sem EXCEPT ![t[1]] = @ + 1]

\* An exception reaches the handler at the end of _process_one: item-error
\* is broadcast with the exception text.  in_try tells whether the raise is
\* inside the inner try, whose finally removes the working directory.
RaiseInItem(t, msg, in_try) ==
  /\ history' = [history EXCEPT ![t[1]] = Broadcast(@, ItemErrorEvt(t[1], ItemOf(t), msg))]
  /\ work_dirs' = IF in_try THEN work_dirs \ {WorkDirOf(UrlSourceId(ItemOf(t).url))}
                            ELSE work_dirs
  /\ Leave(t, "error")

\* Mutant: the item task starts without waiting for the semaphore.
Admit_Unbounded(t) ==
  /\ pc[t] = "waiting"
  /\ IF cancel_requested[t[1]]
       THEN /\ history' = [history EXCEPT ![t[1]] =
                             Broadcast(@, ItemErrorEvt(t[1], ItemOf(t), CancelledMsg))]
            /\ pc' = [pc EXCEPT ![t] = "error"]
            /\ UNCHANGED sem
       ELSE /\ history' = [history EXCEPT ![t[1]] =
                             Progress(Broadcast(@, ItemStartEvt(t[1], ItemOf(t))),
                                      t[1], ItemOf(t), "metadata")]
            /\ pc' = [pc EXCEPT ![t] = "metadata"]
            /\ sem' = [sem EXCEPT ![t[1]] = @ - 1]
  /\ UNCHANGED <<req, bpc, cancel_requested, completed_ids, pending_uploads,
                 work_dirs, sidecars, library_tracks, rpc, rctx, response,
                 calls, rcalls, mock, subscribers, emitted, joined_at,
                                  jobs, cancel_returned, received>>

\* _process_with_semaphore acquires the semaphore.  With the flag set it
\* broadcasts item-error "Cancelled" and returns; otherwise _process_one
\* broadcasts item-start and progress("metadata") and awaits fetch_video_info.
Admit(t) ==
  LET j == t[1] IN
  /\ pc[t] = "waiting"
  /\ sem[j] > 0
  /\ IF cancel_requested[j]
       THEN /\ history' = [history EXCEPT ![j] =
                             Broadcast(@, ItemErrorEvt(j, ItemOf(t), CancelledMsg))]
            /\ pc' = [pc EXCEPT ![t] = "error"]
            /\ UNCHANGED sem
       ELSE /\ history' = [history EXCEPT ![j] =
                             Progress(Broadcast(@, ItemStartEvt(j, ItemOf(t))),
                                      j, ItemOf(t), "metadata")]
            /\ pc' = [pc EXCEPT ![t] = "metadata"]
            /\ sem' = [sem EXCEPT ![j] = @ - 1]
  /\ UNCHANGED <<req, bpc, cancel_requested, completed_ids, pending_uploads,
                 work_dirs, sidecars, library_tracks, rpc, rctx, response>>
  /\ UNCHANGED <<calls, rcalls, mock, subscribers, emitted, joined_at,
                   jobs, cancel_returned, received>>

\* Mutant: a metadata failure goes to the top-level handler like any other
\* exception, storing no context.
MetadataFails_AsError(t) ==
  /\ pc[t] = "metadata"
  /\ history' = [history EXCEPT ![t[1]] =
                   Broadcast(@, ItemErrorEvt(t[1], ItemOf(t), ExcMsgOf("metadata")))]
  /\ pc' = [pc EXCEPT ![t] = "error"]
  /\ sem' = [sem EXCEPT ![t[1]] = @ + 1]
  /\ calls' = [calls EXCEPT ![t] = Append(@, [stage |-> "metadata", result |-> "raised"])]
  /\ UNCHANGED <<req, bpc, cancel_requested, completed_ids, pending_uploads, work_dirs,
                 sidecars, library_tracks, rpc, rctx, response, rcalls,
                 mock, subscribers, emitted, joined_at,
                                  jobs, cancel_returned, received>>

\* fetch_video_info raised: the minimal context is stored under the item id,
\* the working directory is made, item-upload-needed is broadcast.
MetadataFails(t) ==
  LET j == t[1] IN
  /\ pc[t] = "metadata"
  /\ history' = [history EXCEPT ![j] =
                   Broadcast(@, ItemUploadNeededEvt(j, ItemOf(t), ExcMsgOf("metadata")))]
  /\ work_dirs' = work_dirs \cup {WorkDirOf(UrlSourceId(ItemOf(t).url))}
  /\ pending_uploads' = [pending_uploads EXCEPT ![ItemOf(t).id] = Ctx(t, "metadata")]
  /\ Leave(t, "upload_needed")
  /\ UNCHANGED <<req, bpc, cancel_requested, completed_ids, sidecars,
                 library_tracks, rpc, rctx, response>>
  /\ Returned(t, "metadata", "raised")

\* fetch_video_info returned: cancellation check, classify, title parsing,
\* working directory, cancellation check, progress("download"), await download.
MetadataReturns(t) ==
  LET j == t[1] IN
  /\ pc[t] = "metadata"
  /\ IF cancel_requested[j]
       THEN RaiseInItem(t, CancelledMsg, FALSE)
       ELSE /\ history' = [history EXCEPT ![j] =
                             Progress(Progress(@, j, ItemOf(t), "classify"),
                                      j, ItemOf(t), "download")]
            /\ work_dirs' = work_dirs \cup {WorkDirOf(UrlSourceId(ItemOf(t).url))}
            /\ pc' = [pc EXCEPT ![t] = "download"]
            /\ UNCHANGED sem
  /\ UNCHANGED <<req, bpc, cancel_requested, completed_ids, pending_uploads,
                 sidecars, library_tracks, rpc, rctx, response>>
  /\ Returned(t, "metadata", "ok")


\* Mutant: the download failure stores the minimal context of a metadata
\* failure.
DownloadFails_MinimalCtx(t) ==
  LET j == t[1] IN
  /\ pc[t] = "download"
  /\ history' = [history EXCEPT ![j] =
                   Broadcast(@, ItemUploadNeededEvt(j, ItemOf(t), ExcMsgOf("download")))]
  /\ pending_uploads' = [pending_uploads EXCEPT ![ItemOf(t).id] = Ctx(t, "metadata")]
  /\ work_dirs' = work_dirs \ {WorkDirOf(UrlSourceId(ItemOf(t).url))}
  /\ Leave(t, "upload_needed")
  /\ UNCHANGED <<req, bpc, cancel_requested, completed_ids, sidecars,
                 library_tracks, rpc, rctx, response>>
  /\ Returned(t, "download", "raised")

\* download_audio raised: the full context is stored, item-upload-needed is
\* broadcast, and the function returns from inside the inner try, whose
\* finally clause removes the working directory.
DownloadFails(t) ==
  LET j == t[1] IN
  /\ pc[t] = "download"
  /\ history' = [history EXCEPT ![j] =
                   Broadcast(@, ItemUploadNeededEvt(j, ItemOf(t), ExcMsgOf("download")))]
  /\ pending_uploads' = [pending_uploads EXCEPT ![ItemOf(t).id] = Ctx(t, "download")]
  /\ work_dirs' = work_dirs \ {WorkDirOf(UrlSourceId(ItemOf(t).url))}
  /\ Leave(t, "upload_needed")
  /\ UNCHANGED <<req, bpc, cancel_requested, completed_ids, sidecars,
                 library_tracks, rpc, rctx, response>>
  /\ Returned(t, "download", "raised")

\* download_audio returned: the thumbnail download is awaited (the fetched
\* info carries a thumbnail).
DownloadReturns(t) ==
  /\ pc[t] = "download"
  /\ pc' = [pc EXCEPT ![t] = "thumbnail"]
  /\ UNCHANGED <<req, bpc, cancel_requested, history, completed_ids, sem,
                 pending_uploads, work_dirs, sidecars, library_tracks, rpc,
                 rctx, response>>
  /\ Returned(t, "download", "ok")

\* download_thumbnail returned (it catches its own failures): cancellation
\* check, progress("fingerprint"), await try_match_music_metadata.
ThumbnailReturns(t) ==
  LET j == t[1] IN
  /\ pc[t] = "thumbnail"
  /\ IF cancel_requested[j]
       THEN RaiseInItem(t, CancelledMsg, TRUE)
       ELSE /\ history' = [history EXCEPT ![j] = Progress(@, j, ItemOf(t), "fingerprint")]
            /\ pc' = [pc EXCEPT ![t] = "fingerprint"]
            /\ UNCHANGED <<sem, work_dirs>>
  /\ UNCHANGED <<req, bpc, cancel_requested, completed_ids, pending_uploads,
                 sidecars, library_tracks, rpc, rctx, response>>
  /\ Returned(t, "thumbnail", "ok")

\* A collaborator awaited at position at raised: the top-level handler.
StageFails(t, at) ==
  /\ pc[t] = at
  /\ RaiseInItem(t, ExcMsgOf(at), TRUE)
  /\ UNCHANGED <<req, bpc, cancel_requested, completed_ids, pending_uploads,
                 sidecars, library_tracks, rpc, rctx, response>>
  /\ Returned(t, at, "raised")

FingerprintFails(t) == StageFails(t, "fingerprint")
AnalysisFails(t) == StageFails(t, "analysis")
NormalizeFails(t) == StageFails(t, "normalize")
TranscodeFails(t) == StageFails(t, "transcode")
TagFails(t) == StageFails(t, "tag")
PersistFails(t) == StageFails(t, "persist")

\* try_match_music_metadata returned: progress("analysis") and the harmonic
\* analysis is awaited; the flag is not read here.
FingerprintReturns(t) ==
  LET j == t[1] IN
  /\ pc[t] = "fingerprint"
  /\ history' = [history EXCEPT ![j] = Progress(@, j, ItemOf(t), "analysis")]
  /\ pc' = [pc EXCEPT ![t] = "analysis"]
  /\ UNCHANGED <<req, bpc, cancel_requested, completed_ids, sem, pending_uploads,
                 work_dirs, sidecars, library_tracks, rpc, rctx, response>>
  /\ Returned(t, "fingerprint", "ok")

\* Mutant: the mode alone decides.
UsesNormalize_ModeOnly(r) == r.mode = "dj-safe"

\* The branch of stage 5: normalize when normalization is on and the mode is
\* dj-safe, else transcode.
UsesNormalize(r) == r.normalize_enabled /\ r.mode = "dj-safe"

\* analyze_audio returned: tags are built, cancellation check, then either
\* progress("normalize") and await loudnorm_two_pass, or
\* progress("transcode") and, unless the downloaded file only has to be
\* moved (same_ext, normalization off), await transcode.  When the file is
\* moved the code goes on to progress("tag") and awaits the tagger.
AnalysisReturns(t) ==
  LET j == t[1] IN
  /\ pc[t] = "analysis"
  /\ IF cancel_requested[j]
       THEN RaiseInItem(t, CancelledMsg, TRUE)
       ELSE /\ UNCHANGED <<sem, work_dirs>>
            /\ IF UsesNormalize(req[j])
                 THEN /\ history' = [history EXCEPT ![j] = Progress(@, j, ItemOf(t), "normalize")]
                      /\ pc' = [pc EXCEPT ![t] = "normalize"]
                 ELSE \E same_ext \in BOOLEAN :
                        IF ~req[j].normalize_enabled /\ same_ext
                          THEN /\ history' = [history EXCEPT ![j] =
                                    Progress(Progress(@, j, ItemOf(t), "transcode"),
                                             j, ItemOf(t), "tag")]
                               /\ pc' = [pc EXCEPT ![t] = "tag"]
                          ELSE /\ history' = [history EXCEPT ![j] =
                                    Progress(@, j, ItemOf(t), "transcode")]
                               /\ pc' = [pc EXCEPT ![t] = "transcode"]
  /\ UNCHANGED <<req, bpc, cancel_requested, completed_ids, pending_uploads,
                 sidecars, library_tracks, rpc, rctx, response>>
  /\ Returned(t, "analysis", "ok")

\* loudnorm_two_pass / transcode returned: the output is moved into the
\* inbox, progress("tag"), await apply_tags_and_artwork.
ToTag(t, at) ==
  LET j == t[1] IN
  /\ pc[t] = at
  /\ history' = [history EXCEPT ![j] = Progress(@, j, ItemOf(t), "tag")]
  /\ pc' = [pc EXCEPT ![t] = "tag"]
  /\ UNCHANGED <<req, bpc, cancel_requested, completed_ids, sem, pending_uploads,
                 work_dirs, sidecars, library_tracks, rpc, rctx, response>>
  /\ Returned(t, at, "ok")

NormalizeReturns(t) == ToTag(t, "normalize")
TranscodeReturns(t) == ToTag(t, "transcode")

\* The sidecar file and the library row of one processed item.
SidecarOf(j, item_id, names, tags) ==
  [job_id |-> j, item_id |-> item_id, artist |-> names.artist,
   title |-> names.title, djDefaults |-> tags]
TrackOf(j, item_id, names, tags) ==
  [job_id |-> j, item_id |-> item_id, artist |-> names.artist,
   title |-> names.title, genre |-> tags.genre, energy |-> tags.energy,
   time_slot |-> tags.time, vibe |-> tags.vibe]

\* The names and tags _process_one holds for the item of t once the
\* fingerprint has returned.
NamesOf(t) ==
  EffectiveNames(mock.match, NormalizeTitle(mock.info.title, mock.info.uploader))
TagsOf(t) == EffectiveTags(ItemOf(t).preset_snapshot, mock.auto)

\* apply_tags_and_artwork returned: progress("finalize"), the sidecar is
\* written, then the database is awaited (get_db, INSERT, commit).
TagReturns(t) ==
  LET j == t[1] IN
  /\ pc[t] = "tag"
  /\ history' = [history EXCEPT ![j] = Progress(@, j, ItemOf(t), "finalize")]
  /\ sidecars' = sidecars \cup {SidecarOf(j, ItemOf(t).id, NamesOf(t), TagsOf(t))}
  /\ pc' = [pc EXCEPT ![t] = "persist"]
  /\ UNCHANGED <<req, bpc, cancel_requested, completed_ids, sem, pending_uploads,
                 work_dirs, library_tracks, rpc, rctx, response>>
  /\ Returned(t, "tag", "ok")

\* The commit returned: the row is in the library.  job.completed_ids is
\* then appended to and item-done broadcast; on a Job without that
\* attribute the append raises AttributeError instead, which the top-level
\* handler turns into item-error.  The finally clause removes the working
\* directory either way.
PersistReturns(t) ==
  LET j == t[1] IN
  /\ pc[t] = "persist"
  /\ library_tracks' = library_tracks \cup {TrackOf(j, ItemOf(t).id, NamesOf(t), TagsOf(t))}
  /\ work_dirs' = work_dirs \ {WorkDirOf(UrlSourceId(ItemOf(t).url))}
  /\ IF JobHasAttr("completed_ids")
       THEN /\ completed_ids' = [completed_ids EXCEPT ![j] = Append(@, ItemOf(t).id)]
            /\ history' = [history EXCEPT ![j] = Broadcast(@, ItemDoneEvt(j, ItemOf(t)))]
            /\ Leave(t, "done")
       ELSE /\ UNCHANGED completed_ids
            /\ history' = [history EXCEPT ![j] =
                             Broadcast(@, ItemErrorEvt(j, ItemOf(t), AttributeErrorMsg))]
            /\ Leave(t, "error")
  /\ UNCHANGED <<req, bpc, cancel_requested, pending_uploads, sidecars,
                 rpc, rctx, response>>
  /\ Returned(t, "persist", "ok")


\* --------------------------------------------------- upload_audio_for_item
\* Mutant: a request without a pending context is answered {"ok": true}.
UploadNoContext_Accepts(item_id) ==
  /\ response' = "ok"
  /\ UNCHANGED <<req, bpc, cancel_requested, history, completed_ids, sem, pc,
                 pending_uploads, work_dirs, sidecars, library_tracks, rpc, rctx,
                 calls, rcalls, mock, subscribers, emitted, joined_at,
                                  jobs, cancel_returned, received>>

\* _pending_uploads.pop(item_id, None) found nothing: the error response
\* "No pending upload context for this item. The pipeline session may have
\* expired." and nothing else.
UploadNoContext(item_id) ==
  /\ response' = "no-pending-context"
  /\ UNCHANGED <<req, bpc, cancel_requested, history, completed_ids, sem, pc,
                 pending_uploads, work_dirs, sidecars, library_tracks, rpc, rctx,
                 calls, rcalls, mock, subscribers, emitted, joined_at,
                                  jobs, cancel_returned, received>>

\* Mutant: the popped context is not put back.
UploadBadExtension_CtxLost(item_id, ctx) ==
  /\ pending_uploads' = [pending_uploads EXCEPT ![item_id] = NoCtx]
  /\ response' = "unsupported-file-type"
  /\ UNCHANGED <<req, bpc, cancel_requested, history, completed_ids, sem, pc,
                 work_dirs, sidecars, library_tracks, rpc, rctx,
                 calls, rcalls, mock, subscribers, emitted, joined_at,
                                  jobs, cancel_returned, received>>

\* The extension of the file is not in ALLOWED_EXTENSIONS: the popped
\* context is put back under the item id, and the error response
\* "Unsupported file type" is returned.
UploadBadExtension(item_id, ctx) ==
  /\ pending_uploads' = [pending_uploads EXCEPT ![item_id] = ctx]
  /\ response' = "unsupported-file-type"
  /\ UNCHANGED <<req, bpc, cancel_requested, history, completed_ids, sem, pc,
                 work_dirs, sidecars, library_tracks, rpc, rctx,
                 calls, rcalls, mock, subscribers, emitted, joined_at,
                                  jobs, cancel_returned, received>>

\* Mutant: the context is read with get() and stays in the map.
UploadRequest_Get(item_id, job_id, ext_allowed) ==
  LET ctx == pending_uploads[item_id] IN
  IF ctx = NoCtx
    THEN UploadNoContext(item_id)
    ELSE IF ~ext_allowed
      THEN UploadBadExtension(item_id, ctx)
      ELSE /\ rpc[ctx.origin] = "none"
           /\ work_dirs' = work_dirs \cup {ctx.work_dir}
           /\ rpc' = [rpc EXCEPT ![ctx.origin] = "reading"]
           /\ rctx' = [rctx EXCEPT ![ctx.origin] = ctx]
           /\ UNCHANGED <<req, bpc, cancel_requested, history, completed_ids, sem, pc,
                          pending_uploads, sidecars, library_tracks, response,
                          calls, rcalls, mock, subscribers, emitted, joined_at,
                          jobs, cancel_returned, received>>

\* POST /api/queue/upload(file, item_id, job_id) up to its first await.
\* The context is popped by item id alone (job_id is not read).  Without a
\* context the request is refused; with a file extension outside
\* ALLOWED_EXTENSIONS the context is put back and the request refused;
\* otherwise the working directory is (re)made and file.read() is awaited.
UploadRequest(item_id, job_id, ext_allowed) ==
  LET ctx == pending_uploads[item_id] IN
  IF ctx = NoCtx
    THEN UploadNoContext(item_id)
    ELSE IF ~ext_allowed
      THEN UploadBadExtension(item_id, ctx)
      ELSE /\ rpc[ctx.origin] = "none"
           /\ pending_uploads' = [pending_uploads EXCEPT ![item_id] = NoCtx]
           /\ work_dirs' = work_dirs \cup {ctx.work_dir}
           /\ rpc' = [rpc EXCEPT ![ctx.origin] = "reading"]
           /\ rctx' = [rctx EXCEPT ![ctx.origin] = ctx]
           /\ UNCHANGED <<req, bpc, cancel_requested, history, completed_ids, sem, pc,
                          sidecars, library_tracks, response, calls, rcalls,
                          mock, subscribers, emitted, joined_at,
                                           jobs, cancel_returned, received>>

\* file.read() returned: the bytes are written into the working directory,
\* _resume_pipeline is scheduled as a background task, {"ok": true}.
UploadSaved(o) ==
  /\ rpc[o] = "reading"
  /\ rpc' = [rpc EXCEPT ![o] = "scheduled"]
  /\ response' = "ok"
  /\ UNCHANGED <<req, bpc, cancel_requested, history, completed_ids, sem, pc,
                 pending_uploads, work_dirs, sidecars, library_tracks, rctx>>
  /\ UNCHANGED <<calls, rcalls, mock, subscribers, emitted, joined_at,
                   jobs, cancel_returned, received>>

\* ---------------------------------------------------------- _resume_pipeline
\* pick_best_thumbnail_url(info) names a thumbnail.
ResumeThumbAwaited(ctx) == ctx.info.thumbnail

\* The names the resumed run holds once the fingerprint has returned: the
\* match when there is one, else the names of the context.
ResumeNamesOf(ctx) == EffectiveNames(mock.match, ctx.normalized)

\* Mutant: the resumed run re-enters at the download stage.
ResumeStart_AtDownload(o) ==
  LET ctx == rctx[o]
      started == Broadcast(history[ctx.job_id],
                           Evt("item-start", ctx.job_id, ctx.item_id, ctx.url, "", "")) IN
  /\ rpc[o] = "scheduled"
  /\ history' = [history EXCEPT ![ctx.job_id] = ResumeProgress(started, ctx, "download")]
  /\ rpc' = [rpc EXCEPT ![o] = IF ResumeThumbAwaited(ctx) THEN "thumbnail" ELSE "fingerprint"]
  /\ UNCHANGED <<req, bpc, cancel_requested, completed_ids, sem, pc,
                 pending_uploads, work_dirs, sidecars, library_tracks, rctx, response>>
  /\ UNCHANGED <<calls, rcalls, mock, subscribers, emitted, joined_at,
                   jobs, cancel_returned, received>>

\* The resumed run starts: item-start with the ids of the context; the
\* thumbnail is awaited when the stored info names one (the minimal info of
\* a metadata failure does not), else progress("fingerprint") and the
\* fingerprint is awaited.
ResumeStart(o) ==
  LET ctx == rctx[o]
      started == Broadcast(history[ctx.job_id],
                           Evt("item-start", ctx.job_id, ctx.item_id, ctx.url, "", "")) IN
  /\ rpc[o] = "scheduled"
  /\ IF ResumeThumbAwaited(ctx)
       THEN /\ history' = [history EXCEPT ![ctx.job_id] = started]
            /\ rpc' = [rpc EXCEPT ![o] = "thumbnail"]
       ELSE /\ history' = [history EXCEPT ![ctx.job_id] =
                             ResumeProgress(started, ctx, "fingerprint")]
            /\ rpc' = [rpc EXCEPT ![o] = "fingerprint"]
  /\ UNCHANGED <<req, bpc, cancel_requested, completed_ids, sem, pc,
                 pending_uploads, work_dirs, sidecars, library_tracks, rctx, response>>
  /\ UNCHANGED <<calls, rcalls, mock, subscribers, emitted, joined_at,
                   jobs, cancel_returned, received>>

\* One step of the resumed run that broadcasts progress(stage) and awaits the
\* next collaborator.
ResumeAdvance(o, at, stage, next) ==
  /\ rpc[o] = at
  /\ history' = [history EXCEPT ![rctx[o].job_id] = ResumeProgress(@, rctx[o], stage)]
  /\ rpc' = [rpc EXCEPT ![o] = next]
  /\ UNCHANGED <<req, bpc, cancel_requested, completed_ids, sem, pc,
                 pending_uploads, work_dirs, sidecars, library_tracks, rctx, response>>
  /\ ResumeReturned(o, at, "ok")

\* The thumbnail download returned or raised (the raise is swallowed).
ResumeThumbnailReturns(o) == ResumeAdvance(o, "thumbnail", "fingerprint", "fingerprint")
ResumeFingerprintReturns(o) == ResumeAdvance(o, "fingerprint", "analysis", "analysis")
ResumeNormalizeReturns(o) == ResumeAdvance(o, "normalize", "tag", "tag")
ResumeTranscodeReturns(o) == ResumeAdvance(o, "transcode", "tag", "tag")

\* analyze_audio returned in the resumed run: no cancellation check; the
\* same branch as in _process_one, the uploaded file being moved without a
\* transcode whenever its extension is already the final one.
ResumeAnalysisReturns(o) ==
  LET ctx == rctx[o] IN
  /\ rpc[o] = "analysis"
  /\ IF UsesNormalize(req[ctx.job_id])
       THEN /\ history' = [history EXCEPT ![ctx.job_id] = ResumeProgress(@, ctx, "normalize")]
            /\ rpc' = [rpc EXCEPT ![o] = "normalize"]
       ELSE \E same_ext \in BOOLEAN :
              IF same_ext
                THEN /\ history' = [history EXCEPT ![ctx.job_id] =
                          ResumeProgress(ResumeProgress(@, ctx, "transcode"), ctx, "tag")]
                     /\ rpc' = [rpc EXCEPT ![o] = "tag"]
                ELSE /\ history' = [history EXCEPT ![ctx.job_id] =
                          ResumeProgress(@, ctx, "transcode")]
                     /\ rpc' = [rpc EXCEPT ![o] = "transcode"]
  /\ UNCHANGED <<req, bpc, cancel_requested, completed_ids, sem, pc,
                 pending_uploads, work_dirs, sidecars, library_tracks, rctx, response>>
  /\ ResumeReturned(o, "analysis", "ok")

ResumeTagReturns(o) ==
  LET ctx == rctx[o] IN
  /\ rpc[o] = "tag"
  /\ history' = [history EXCEPT ![ctx.job_id] = ResumeProgress(@, ctx, "finalize")]
  /\ sidecars' = sidecars \cup {SidecarOf(ctx.job_id, ctx.item_id, ResumeNamesOf(ctx),
                                       ctx.classification)}
  /\ rpc' = [rpc EXCEPT ![o] = "persist"]
  /\ UNCHANGED <<req, bpc, cancel_requested, completed_ids, sem, pc,
                 pending_uploads, work_dirs, library_tracks, rctx, response>>
  /\ ResumeReturned(o, "tag", "ok")

\* The commit returned in the resumed run: as in _process_one, with the
\* AttributeError of job.completed_ids caught by the except clause; the
\* finally clause removes the working directory.
ResumePersistReturns(o) ==
  LET ctx == rctx[o] IN
  /\ rpc[o] = "persist"
  /\ library_tracks' = library_tracks \cup {TrackOf(ctx.job_id, ctx.item_id, ResumeNamesOf(ctx),
                                           ctx.classification)}
  /\ work_dirs' = work_dirs \ {ctx.work_dir}
  /\ IF JobHasAttr("completed_ids")
       THEN /\ completed_ids' = [completed_ids EXCEPT ![ctx.job_id] = Append(@, ctx.item_id)]
            /\ history' = [history EXCEPT ![ctx.job_id] =
                 Broadcast(@, Evt("item-done", ctx.job_id, ctx.item_id, ctx.url, "", ""))]
            /\ rpc' = [rpc EXCEPT ![o] = "done"]
       ELSE /\ UNCHANGED completed_ids
            /\ history' = [history EXCEPT ![ctx.job_id] =
                 Broadcast(@, Evt("item-error", ctx.job_id, ctx.item_id, ctx.url, "",
                                  AttributeErrorMsg))]
            /\ rpc' = [rpc EXCEPT ![o] = "error"]
  /\ UNCHANGED <<req, bpc, cancel_requested, sem, pc, pending_uploads, sidecars,
                 rctx, response>>
  /\ ResumeReturned(o, "persist", "ok")

ResumeAwaits == {"fingerprint", "analysis", "normalize", "transcode", "tag", "persist"}

\* Mutant: the failing resumed run leaves its working directory behind.
ResumeStageFails_KeepsDir(o) ==
  LET ctx == rctx[o] IN
  /\ rpc[o] \in ResumeAwaits
  /\ history' = [history EXCEPT ![ctx.job_id] =
       Broadcast(@, Evt("item-error", ctx.job_id, ctx.item_id, ctx.url, "",
                        ExcMsgOf(rpc[o])))]
  /\ rpc' = [rpc EXCEPT ![o] = "error"]
  /\ UNCHANGED <<req, bpc, cancel_requested, completed_ids, sem, pc, work_dirs,
                 pending_uploads, sidecars, library_tracks, rctx, response>>
  /\ ResumeReturned(o, rpc[o], "raised")

\* A collaborator of the resumed run raised: item-error with the exception
\* text, and the finally clause removes the working directory.
ResumeStageFails(o) ==
  LET ctx == rctx[o] IN
  /\ rpc[o] \in ResumeAwaits
  /\ history' = [history EXCEPT ![ctx.job_id] =
       Broadcast(@, Evt("item-error", ctx.job_id, ctx.item_id, ctx.url, "",
                        ExcMsgOf(rpc[o])))]
  /\ work_dirs' = work_dirs \ {ctx.work_dir}
  /\ rpc' = [rpc EXCEPT ![o] = "error"]
  /\ UNCHANGED <<req, bpc, cancel_requested, completed_ids, sem, pc,
                 pending_uploads, sidecars, library_tracks, rctx, response>>
  /\ ResumeReturned(o, rpc[o], "raised")

\* ------------------------------------------------------------ specification
BatchStep ==
  \/ \E j \in Jobs : RunPipelineStart(j)
  \/ \E j \in Jobs : GatherReturns(j)
  \/ \E j \in Jobs : JobExists(j) /\ CancelJob(j)
  \/ \E t \in Tasks : Admit(t)
  \/ \E t \in Tasks : MetadataFails(t)
  \/ \E t \in Tasks : MetadataReturns(t)
  \/ \E t \in Tasks : DownloadFails(t)
  \/ \E t \in Tasks : DownloadReturns(t)
  \/ \E t \in Tasks : ThumbnailReturns(t)
  \/ \E t \in Tasks : FingerprintFails(t)
  \/ \E t \in Tasks : FingerprintReturns(t)
  \/ \E t \in Tasks : AnalysisFails(t)
  \/ \E t \in Tasks : AnalysisReturns(t)
  \/ \E t \in Tasks : NormalizeFails(t)
  \/ \E t \in Tasks : NormalizeReturns(t)
  \/ \E t \in Tasks : TranscodeFails(t)
  \/ \E t \in Tasks : TranscodeReturns(t)
  \/ \E t \in Tasks : TagFails(t)
  \/ \E t \in Tasks : TagReturns(t)
  \/ \E t \in Tasks : PersistFails(t)
  \/ \E t \in Tasks : PersistReturns(t)

ResumeStep ==
  \/ \E i \in ItemIds, j \in Jobs :
       pending_uploads[i] # NoCtx /\ UploadRequest(i, j, TRUE)
  \/ \E o \in Tasks : UploadSaved(o)
  \/ \E o \in Tasks : ResumeStart(o)
  \/ \E o \in Tasks : ResumeThumbnailReturns(o)
  \/ \E o \in Tasks : ResumeFingerprintReturns(o)
  \/ \E o \in Tasks : ResumeAnalysisReturns(o)
  \/ \E o \in Tasks : ResumeNormalizeReturns(o)
  \/ \E o \in Tasks : ResumeTranscodeReturns(o)
  \/ \E o \in Tasks : ResumeTagReturns(o)
  \/ \E o \in Tasks : ResumePersistReturns(o)
  \/ \E o \in Tasks : ResumeStageFails(o)

Next == BatchStep \/ ResumeStep

Spec == Init /\ [][Next]_vars


\* A batch larger than the admission limit, with the dj-safe settings.  No
\* upload arrives, and a cancel request arrives, if at all, before
\* run_pipeline has started.
InitAdmit == InitWith(Request(NumAdmitItems, TRUE, "dj-safe"))

NextAdmit ==
  \/ \E j \in Jobs : bpc[j] = "scheduled" /\ CancelJob(j)
  \/ \E j \in Jobs : RunPipelineStart(j)
  \/ \E j \in Jobs : GatherReturns(j)
  \/ \E t \in Tasks : Admit(t)
  \/ \E t \in Tasks : MetadataFails(t)
  \/ \E t \in Tasks : MetadataReturns(t)
  \/ \E t \in Tasks : DownloadFails(t)
  \/ \E t \in Tasks : DownloadReturns(t)
  \/ \E t \in Tasks : ThumbnailReturns(t)
  \/ \E t \in Tasks : FingerprintFails(t)
  \/ \E t \in Tasks : FingerprintReturns(t)
  \/ \E t \in Tasks : AnalysisFails(t)
  \/ \E t \in Tasks : AnalysisReturns(t)
  \/ \E t \in Tasks : NormalizeFails(t)
  \/ \E t \in Tasks : NormalizeReturns(t)
  \/ \E t \in Tasks : TagFails(t)
  \/ \E t \in Tasks : TagReturns(t)
  \/ \E t \in Tasks : PersistFails(t)
  \/ \E t \in Tasks : PersistReturns(t)

SpecAdmit == InitAdmit /\ [][NextAdmit]_vars


\* One item, with every combination of preset, fetched info, classifier
\* answer, fingerprint answer and batch settings.
Presets == {DefaultPreset, DJTags("Afro House", "Low", "", "")}

InitData ==
  \E preset \in Presets, info \in {InfoWithSeparator, InfoPlain},
     auto \in {AutoTechno, AutoNothing}, match \in {NoMatch, Matched},
     settings \in {<<TRUE, "dj-safe">>, <<FALSE, "fast">>} :
    InitWithMock(RequestWith(NumResumeItems, settings[1], settings[2], preset),
                 MockOf(info, auto, match))

SpecData == InitData /\ [][Next]_vars

\* One item, with upload requests of every kind: for an item id with or
\* without a pending context, with an allowed or a refused file extension.
InitUpload ==
  \E r \in {Request(NumResumeItems, TRUE, "dj-safe"),
             Request(NumResumeItems, FALSE, "fast")} : InitWith(r)

NextUpload ==
  \/ BatchStep
  \/ ResumeStep
  \/ \E i \in ItemIds, j \in Jobs, ext_allowed \in BOOLEAN :
       UploadRequest(i, j, ext_allowed)

SpecUpload == InitUpload /\ [][NextUpload]_vars

\* Batches of one item with every kind of preset and of classifier answer:
\* each preset field set or unset, the genre also as the sentinel "Other";
\* the classifier recognising all, some or none of the fields.  No cancel
\* request arrives.
MergePresets ==
  {DJTags(genre, energy, tv[1], tv[2]) :
     genre \in {"", "Other", "Afro House"}, energy \in {"", "Low"},
     tv \in {<<"", "">>, <<"Warmup", "Deep">>}}

AutoPartial == DJTags("Techno", "", "Peak", "")

InitMerge ==
  \E preset \in MergePresets, auto \in {AutoTechno, AutoPartial, AutoNothing},
     settings \in {<<TRUE, "dj-safe">>, <<FALSE, "fast">>} :
    InitWithMock(RequestWith(NumResumeItems, settings[1], settings[2], preset),
                 MockOf(InfoWithSeparator, auto, NoMatch))

NextMerge ==
  \/ \E j \in Jobs : RunPipelineStart(j)
  \/ \E j \in Jobs : GatherReturns(j)
  \/ \E t \in Tasks : Admit(t)
  \/ \E t \in Tasks : MetadataFails(t)
  \/ \E t \in Tasks : MetadataReturns(t)
  \/ \E t \in Tasks : DownloadFails(t)
  \/ \E t \in Tasks : DownloadReturns(t)
  \/ \E t \in Tasks : ThumbnailReturns(t)
  \/ \E t \in Tasks : FingerprintFails(t)
  \/ \E t \in Tasks : FingerprintReturns(t)
  \/ \E t \in Tasks : AnalysisFails(t)
  \/ \E t \in Tasks : AnalysisReturns(t)
  \/ \E t \in Tasks : NormalizeFails(t)
  \/ \E t \in Tasks : NormalizeReturns(t)
  \/ \E t \in Tasks : TranscodeFails(t)
  \/ \E t \in Tasks : TranscodeReturns(t)
  \/ \E t \in Tasks : TagFails(t)
  \/ \E t \in Tasks : TagReturns(t)
  \/ \E t \in Tasks : PersistFails(t)
  \/ \E t \in Tasks : PersistReturns(t)
  \/ ResumeStep

SpecMerge == InitMerge /\ [][NextMerge]_vars

\* Batches of one item under each combination of the normalization switch
\* and the mode.
InitModes ==
  \E normalize_enabled \in BOOLEAN, mode \in {"dj-safe", "fast"} :
    InitWith(Request(NumResumeItems, normalize_enabled, mode))

SpecModes == InitModes /\ [][Next]_vars

\* ------------------------------------------------------------ event bus
\* Mutant: the queue hands out the newest event first.
PutNowait_Front(q, e) == IF Len(q) >= QUEUE_MAXSIZE THEN q ELSE <<e>> \o q

\* q.put_nowait(event) on a queue of maxsize QUEUE_MAXSIZE: QueueFull
\* leaves the queue as it is.
PutNowait(q, e) == IF Len(q) >= QUEUE_MAXSIZE THEN q ELSE Append(q, e)

\* Mutant: a full queue makes broadcast give up on every subscriber.
Deliver_StopsAtFull(subs, e) ==
  IF \E c \in DOMAIN subs : Len(subs[c]) >= QUEUE_MAXSIZE
  THEN subs
  ELSE [c \in DOMAIN subs |-> Append(subs[c], e)]

\* The loop of broadcast over job.subscribers.values(): a full queue drops
\* the event for that subscriber only.
Deliver(subs, e) == [c \in DOMAIN subs |-> PutNowait(subs[c], e)]

\* job.history as one list.  It is the job-level log as long as no
\* item-level event was broadcast, which is the case in SpecBus.
HistoryOf(h) == h.job

\* Mutant: subscribe replays nothing.
Replay_Nothing(evts) == <<>>

\* The replay loop of subscribe on a new queue: put_nowait succeeds for one
\* event after the other until the queue is full, then the loop breaks.
Replay(evts) ==
  IF Len(evts) <= QUEUE_MAXSIZE THEN evts ELSE SubSeq(evts, 1, QUEUE_MAXSIZE)

\* JobManager.broadcast(job, event) called directly, as test_job_manager.py
\* does: the event is appended to the history and put on every queue with
\* room, without any await.
BroadcastEvent(j, e) ==
  /\ history' = [history EXCEPT ![j] = Broadcast(@, e)]
  /\ subscribers' = [subscribers EXCEPT ![j] = Deliver(@, e)]
  /\ emitted' = [emitted EXCEPT ![j] = @ + 1]
  /\ UNCHANGED <<req, bpc, cancel_requested, completed_ids, sem, pc,
                 pending_uploads, work_dirs, sidecars, library_tracks, rpc, rctx,
                 response, calls, rcalls, mock, joined_at, jobs,
                 cancel_returned, received>>

\* The n-th broadcast on a job carries the event numbered n.
BusBroadcast(j) == BroadcastEvent(j, TestEvt(j, emitted[j] + 1))

\* JobManager.subscribe(job): a fresh client id, a new queue registered
\* under it, the history replayed into the queue.
Subscribe(j, c) ==
  /\ joined_at[c] = -1
  /\ subscribers' = [subscribers EXCEPT ![j] =
                       [d \in DOMAIN @ \cup {c} |->
                          IF d = c THEN Replay(HistoryOf(history[j])) ELSE @[d]]]
  /\ joined_at' = [joined_at EXCEPT ![c] = emitted[j]]
  /\ UNCHANGED <<req, bpc, cancel_requested, history, completed_ids, sem, pc,
                 pending_uploads, work_dirs, sidecars, library_tracks, rpc, rctx,
                 response, calls, rcalls, mock, emitted, jobs,
                 cancel_returned, received>>

\* The job manager on its own: jobA is created without a batch, events are
\* broadcast on it and a client subscribes at any moment; nothing is
\* consumed from the queue.
BusJobs == {"jobA"}
BusClients == {"c1"}

InitBus == InitState(NoReq, DefaultMock, "created")

NextBus ==
  \/ \E j \in BusJobs :
       emitted[j] < HISTORY_CAP + ExtraBroadcasts /\ BusBroadcast(j)
  \/ \E j \in BusJobs, c \in BusClients : Subscribe(j, c)

SpecBus == InitBus /\ [][NextBus]_vars

\* -------------------------------------------------------- job manager
\* subs without the entry of client c.
Without(subs, c) == [d \in DOMAIN subs \ {c} |-> subs[d]]

\* Mutant: unsubscribe empties the registry of the job.
Unsubscribe_All(j, c) ==
  /\ subscribers' = [subscribers EXCEPT ![j] = NoSubscribers]
  /\ UNCHANGED <<req, bpc, cancel_requested, history, completed_ids, sem, pc,
                 pending_uploads, work_dirs, sidecars, library_tracks, rpc, rctx,
                 response, calls, rcalls, mock, emitted, joined_at, jobs,
                 cancel_returned, received>>

\* JobManager.unsubscribe(job, client_id): job.subscribers.pop(client_id,
\* None), which does nothing for an id that is not registered.
Unsubscribe(j, c) ==
  /\ subscribers' = [subscribers EXCEPT ![j] = Without(@, c)]
  /\ UNCHANGED <<req, bpc, cancel_requested, history, completed_ids, sem, pc,
                 pending_uploads, work_dirs, sidecars, library_tracks, rpc, rctx,
                 response, calls, rcalls, mock, emitted, joined_at, jobs,
                 cancel_returned, received>>

\* The holder of a queue takes its oldest event: queue.get() returning.
QueueGet(j, c) ==
  /\ c \in DOMAIN subscribers[j]
  /\ Len(subscribers[j][c]) > 0
  /\ received' = [received EXCEPT ![c] = Append(@, Head(subscribers[j][c]))]
  /\ subscribers' = [subscribers EXCEPT ![j][c] = Tail(@)]
  /\ UNCHANGED <<req, bpc, cancel_requested, history, completed_ids, sem, pc,
                 pending_uploads, work_dirs, sidecars, library_tracks, rpc, rctx,
                 response, calls, rcalls, mock, emitted, joined_at, jobs,
                 cancel_returned>>

\* JobManager.create_job(): a job with a fresh id, no history, no
\* subscribers and the flag unset is registered.
CreateJob(j) ==
  /\ bpc[j] = "none"
  /\ bpc' = [bpc EXCEPT ![j] = "created"]
  /\ jobs' = jobs \cup {j}
  /\ UNCHANGED <<req, cancel_requested, history, completed_ids, sem, pc,
                 pending_uploads, work_dirs, sidecars, library_tracks, rpc, rctx,
                 response, calls, rcalls, mock, subscribers, emitted, joined_at,
                 cancel_returned, received>>

\* Mutant: cleanup_job forgets every job.
CleanupJob_All(j) ==
  /\ jobs' = {}
  /\ UNCHANGED <<req, bpc, cancel_requested, history, completed_ids, sem, pc,
                 pending_uploads, work_dirs, sidecars, library_tracks, rpc, rctx,
                 response, calls, rcalls, mock, subscribers, emitted, joined_at,
                 cancel_returned, received>>

\* JobManager.cleanup_job(job_id): self._jobs.pop(job_id, None).  The Job
\* object itself is untouched and stays usable by whoever holds it.
CleanupJob(j) ==
  /\ jobs' = jobs \ {j}
  /\ UNCHANGED <<req, bpc, cancel_requested, history, completed_ids, sem, pc,
                 pending_uploads, work_dirs, sidecars, library_tracks, rpc, rctx,
                 response, calls, rcalls, mock, subscribers, emitted, joined_at,
                 cancel_returned, received>>

None == [id |-> "None"]

\* JobManager.get_job(job_id): the registered Job, or None.
GetJob(j) ==
  IF JobExists(j)
  THEN [id |-> j, cancel_requested |-> cancel_requested[j],
        history |-> history[j], subscribers |-> subscribers[j]]
  ELSE None

\* The job manager driven as its test suite drives it: jobA has had some
\* events broadcast before anybody subscribed; two clients subscribe,
\* take events from their queues and unsubscribe in any order, with
\* registered and unregistered ids, and the job is cancelled at any moment.
Prefixes == {0, QUEUE_MAXSIZE - 1}

InitManager ==
  \E n \in Prefixes : InitJob(NoReq, DefaultMock, "created", n)

BroadcastsLeft(j) ==
  \E n \in Prefixes : n <= emitted[j] /\ emitted[j] < n + LiveBroadcasts

NextManager ==
  \/ \E j \in BusJobs : BroadcastsLeft(j) /\ BusBroadcast(j)
  \/ \E j \in BusJobs, c \in ClientIds : Subscribe(j, c)
  \/ \E j \in BusJobs, c \in ClientIds :
       Len(received[c]) < MaxGets /\ QueueGet(j, c)
  \/ \E j \in BusJobs, c \in ClientIds : Unsubscribe(j, c)
  \/ \E j \in BusJobs : CancelJob(j)

SpecManager == InitManager /\ [][NextManager]_vars

\* The registry of jobs: next to a batch of one item on jobA, with its
\* resumes, a second job is created, used and cleaned up, and cancel_job is
\* called with the id of a registered job, of a job not yet created and of a
\* job already cleaned up.  cleanup_job has no caller in the program; the
\* test suite calls it on a job without a batch.
HasBatch(j) == bpc[j] \notin {"none", "created"}

NextRegistry ==
  \/ BatchStep
  \/ ResumeStep
  \/ \E j \in Jobs : CancelJob(j)
  \/ \E j \in Jobs : CreateJob(j)
  \/ \E j \in Jobs : ~HasBatch(j) /\ CleanupJob(j)
  \/ \E j \in Jobs, c \in BusClients : bpc[j] = "created" /\ Subscribe(j, c)
  \/ \E j \in Jobs, c \in BusClients : bpc[j] = "created" /\ Unsubscribe(j, c)

SpecRegistry == InitUpload /\ [][NextRegistry]_vars

\* -------------------------------------------------------- event stream
\* queue-done broadcast on a job as its n-th event.
DoneEvt(j, n) == [QueueDoneEvt(j) EXCEPT !.data = n]

IsQueueDone(e) == e.type = "queue-done"

\* queue_events(job_id) on a known job: get_job finds it and subscribe
\* hands the stream its client id and queue.  (For an unknown job the
\* endpoint answers 404 and nothing changes.)
StreamOpen(j, c) ==
  /\ JobExists(j)
  /\ Subscribe(j, c)

\* Mutant: the stream goes on after queue-done.
StreamNext_NeverEnds(j, c) == QueueGet(j, c)

\* One turn of the loop of event_stream with an event in the queue: the
\* event is taken and yielded; if it is queue-done the loop breaks and the
\* finally clause unsubscribes the client, its queue going with it.  (A
\* turn that times out yields a keepalive comment and changes nothing.)
StreamNext(j, c) ==
  /\ c \in DOMAIN subscribers[j]
  /\ Len(subscribers[j][c]) > 0
  /\ LET event == Head(subscribers[j][c]) IN
     /\ received' = [received EXCEPT ![c] = Append(@, event)]
     /\ subscribers' = [subscribers EXCEPT ![j] =
                          IF IsQueueDone(event) THEN Without(@, c)
                          ELSE [@ EXCEPT ![c] = Tail(@)]]
  /\ UNCHANGED <<req, bpc, cancel_requested, history, completed_ids, sem, pc,
                 pending_uploads, work_dirs, sidecars, library_tracks, rpc, rctx,
                 response, calls, rcalls, mock, emitted, joined_at, jobs,
                 cancel_returned>>

\* The client goes away: the generator is closed at its yield and the
\* finally clause unsubscribes.
StreamDisconnect(j, c) ==
  /\ c \in DOMAIN subscribers[j]
  /\ Unsubscribe(j, c)

\* Whether queue-done is in the job's history.
DoneBroadcast(j) ==
  \E k \in 1..Len(HistoryOf(history[j])) : IsQueueDone(HistoryOf(history[j])[k])

\* The last broadcast of a batch, made once on a job.
BroadcastQueueDone(j) ==
  /\ ~DoneBroadcast(j)
  /\ BroadcastEvent(j, DoneEvt(j, emitted[j] + 1))

\* One event stream on jobA, which has had some events broadcast before the
\* stream is opened; events and, once, queue-done are broadcast at any
\* moment, events broadcast after queue-done being those of resumed runs.
NextStream ==
  \/ \E j \in BusJobs : BroadcastsLeft(j) /\ BusBroadcast(j)
  \/ \E j \in BusJobs : BroadcastsLeft(j) /\ BroadcastQueueDone(j)
  \/ \E j \in BusJobs, c \in BusClients : StreamOpen(j, c)
  \/ \E j \in BusJobs, c \in BusClients : StreamNext(j, c)
  \/ \E j \in BusJobs, c \in BusClients : StreamDisconnect(j, c)

SpecStream == InitManager /\ [][NextStream]_vars

\* The same with the stream making progress: as long as its queue holds an
\* event and the client is there to read, the pending queue.get() returns
\* and the loop takes its next turn.
SpecStreamFair ==
  SpecStream /\ \A j \in BusJobs, c \in BusClients : WF_vars(StreamNext(j, c))

\* Batches whose items are not distinct: QueueItemInput takes any non-empty
\* id and url from the caller and QueueStartRequest any list of one to ten
\* items, so the items of one batch may share a URL, and two jobs may name
\* the same item.
QueueItemInput(id, url) == [id |-> id, url |-> url, preset_snapshot |-> DefaultPreset]

QueueStartRequest(items, norm, mode) ==
  [items |-> items, normalize_enabled |-> norm, mode |-> mode, inbox_dir |-> "inbox"]

\* One batch of two items with different ids and the same URL; two jobs
\* whose batches name the same item.
SharedBatches ==
  {[jobA |-> QueueStartRequest(<<QueueItemInput(1, 1), QueueItemInput(2, 1)>>,
                               FALSE, "fast"),
    jobB |-> NoReq],
   [jobA |-> QueueStartRequest(<<QueueItemInput(1, 1)>>, TRUE, "dj-safe"),
    jobB |-> QueueStartRequest(<<QueueItemInput(1, 1)>>, TRUE, "dj-safe")]}

\* The state after queue_start was called once for every job with a batch.
InitShared ==
  \E rs \in SharedBatches :
    /\ mock = DefaultMock
    /\ subscribers = [j \in Jobs |-> NoSubscribers]
    /\ emitted = [j \in Jobs |-> 0]
    /\ joined_at = [c \in ClientIds |-> -1]
    /\ jobs = {j \in Jobs : rs[j] # NoReq}
    /\ cancel_returned = [j \in Jobs |-> "none"]
    /\ received = [c \in ClientIds |-> <<>>]
    /\ req = rs
    /\ bpc = [j \in Jobs |-> IF rs[j] # NoReq THEN "scheduled" ELSE "none"]
    /\ cancel_requested = [j \in Jobs |-> FALSE]
    /\ history = [j \in Jobs |-> EmptyHistory]
    /\ completed_ids = [j \in Jobs |-> <<>>]
    /\ sem = [j \in Jobs |-> MAX_CONCURRENT]
    /\ pc = [t \in Tasks |-> "idle"]
    /\ pending_uploads = [i \in ItemIds |-> NoCtx]
    /\ work_dirs = {}
    /\ sidecars = {}
    /\ library_tracks = {}
    /\ rpc = [t \in Tasks |-> "none"]
    /\ rctx = [t \in Tasks |-> NoCtx]
    /\ response = "none"
    /\ calls = [t \in Tasks |-> <<>>]
    /\ rcalls = [t \in Tasks |-> <<>>]

SpecShared == InitShared /\ [][Next]_vars

\* A batch larger than the admission limit whose metadata fetches all fail,
\* with an upload for every suspended item; the resumed runs end at their
\* first collaborator.  No cancel request arrives.
NextAdmitResume ==
  \/ \E j \in Jobs : RunPipelineStart(j)
  \/ \E j \in Jobs : GatherReturns(j)
  \/ \E t \in Tasks : Admit(t)
  \/ \E t \in Tasks : MetadataFails(t)
  \/ \E i \in ItemIds, j \in Jobs :
       pending_uploads[i] # NoCtx /\ UploadRequest(i, j, TRUE)
  \/ \E o \in Tasks : UploadSaved(o)
  \/ \E o \in Tasks : ResumeStart(o)
  \/ \E o \in Tasks : ResumeStageFails(o)

SpecAdmitResume == InitAdmit /\ [][NextAdmitResume]_vars

\* ================================================================= claims
ItemLog(t) == history[t[1]].item[ItemOf(t).id]

RECURSIVE CountTypes(_, _)
\* How many events of log have a type in types.
CountTypes(log, types) ==
  IF log = <<>> THEN 0
  ELSE (IF Head(log).type \in types THEN 1 ELSE 0) + CountTypes(Tail(log), types)

RECURSIVE FirstOfTypes(_, _)
\* The first event of log with a type in types (log has one).
FirstOfTypes(log, types) ==
  IF Head(log).type \in types THEN Head(log) ELSE FirstOfTypes(Tail(log), types)

QueueDoneCount(j) == CountTypes(history[j].job, {"queue-done"})
BatchEnded(j) == bpc[j] \in {"done", "raised"}
ResumeFinished == {"done", "error"}

\* The number of Item Processor runs of the item of task t that have ended:
\* its batch run and the run resumed from the context it stored.
RunsEnded(t) ==
  (IF pc[t] \in Finished THEN 1 ELSE 0) + (IF rpc[t] \in ResumeFinished THEN 1 ELSE 0)

\* C1: every Item Processor run (batch run or resumed run) broadcasts exactly
\* one terminal event for its item: the terminal events in the item's
\* history are as many as the runs of that item that have ended, so a run in
\* progress has broadcast none and a run that ended has broadcast one.
C1_OneTerminalPerRun ==
  \A j \in Jobs : \A t \in TasksOf(j) :
    CountTypes(ItemLog(t), TerminalTypes) = RunsEnded(t)

\* C1 witness: with cancellation requested, an item whose batch run ended in
\* upload-needed and whose resumed run ended too, next to an item whose
\* batch run ended in an error.
C1_Witness ==
  \E j \in Jobs : \E t, u \in TasksOf(j) :
    /\ cancel_requested[j]
    /\ pc[t] = "upload_needed" /\ rpc[t] \in ResumeFinished
    /\ CountTypes(ItemLog(t), TerminalTypes) = 2
    /\ pc[u] = "error"

\* C2 (as claimed): when run_pipeline has ended, queue-done has been
\* broadcast exactly once for the job.
C2_QueueDoneOnce ==
  \A j \in Jobs : BatchEnded(j) => QueueDoneCount(j) = 1

\* The item tasks of j that hold the semaphore: admitted, terminal event not
\* yet broadcast.  Each of them is suspended in one external call.
Admitted(j) == {t \in TasksOf(j) : pc[t] \in InFlight}

\* C4: at most MAX_CONCURRENT items of a batch are between admission and
\* their terminal event, so at most that many external calls are active.
C4_AtMostThreeActive ==
  \A j \in Jobs : Cardinality(Admitted(j)) <= MAX_CONCURRENT

\* C4 witness: three items are being processed while another one waits for
\* admission.
C4_Witness ==
  \E j \in Jobs :
    /\ Cardinality(Admitted(j)) = MAX_CONCURRENT
    /\ \E t \in TasksOf(j) : pc[t] = "waiting"

\* The metadata fetch of the batch run of t raised.
MetadataFailed(t) ==
  calls[t] # <<>> /\ calls[t][1] = [stage |-> "metadata", result |-> "raised"]

\* Every collaborator call of the batch run of t returned, through the
\* database commit.
AllStagesSucceeded(t) ==
  /\ calls[t] # <<>>
  /\ \A k \in DOMAIN calls[t] : calls[t][k].result = "ok"
  /\ calls[t][Len(calls[t])].stage = "persist"

\* C5 (as claimed): when the batch has ended and the metadata stage of one
\* item failed, every item whose stages all succeeded has item-done as its
\* last event, and queue-done has been broadcast.
C5_Isolation ==
  \A j \in Jobs :
    (BatchEnded(j) /\ \E t \in TasksOf(j) : MetadataFailed(t)) =>
      /\ \A u \in TasksOf(j) :
           (AllStagesSucceeded(u) /\ rpc[u] = "none") =>
             ItemLog(u)[Len(ItemLog(u))].type = "item-done"
      /\ QueueDoneCount(j) = 1

\* C7 (as claimed): when the flag was set before run_pipeline started (the
\* only moment SpecAdmit sets it) and the batch has ended, every item has
\* item-error "Cancelled" as its only event, no collaborator was called,
\* and queue-done has been broadcast exactly once.
C7_CancelBeforeStart ==
  \A j \in Jobs :
    (cancel_requested[j] /\ BatchEnded(j)) =>
      /\ \A t \in TasksOf(j) :
           /\ ItemLog(t) = <<ItemErrorEvt(j, ItemOf(t), CancelledMsg)>>
           /\ calls[t] = <<>>
      /\ QueueDoneCount(j) = 1

\* The positions in which a stage of the pipeline has been started
\* (Metadata, Download, Fingerprint, HarmonicAnalysis, Normalize, Transcode,
\* Tag, Finalize); Classify runs between "metadata" and "download".
StagePositions == {"metadata", "download", "fingerprint", "analysis",
                   "normalize", "transcode", "tag", "persist"}

\* C8 (as claimed): once the flag of a job is set, no item task of the job
\* begins another stage.
C8_NoStageAfterCancel ==
  [][\A t \in Tasks :
       (cancel_requested[t[1]] /\ pc'[t] # pc[t]) => pc'[t] \notin StagePositions]_vars

\* The context of task t, wherever it is: still pending under the item id,
\* or taken by an accepted upload.
StoredCtx(t) ==
  IF rpc[t] = "none" THEN pending_uploads[ItemOf(t).id] ELSE rctx[t]

HasEvent(log, type, error) ==
  \E k \in DOMAIN log : log[k].type = type /\ log[k].error = error

DownloadFailed(t) ==
  calls[t] = <<[stage |-> "metadata", result |-> "ok"],
               [stage |-> "download", result |-> "raised"]>>

\* C11: when the download fails for an item whose metadata and classify
\* stages succeeded, the batch run ends in upload-needed (its terminal event
\* is item-upload-needed) and the context stored under the item id holds the
\* values already computed: the fetched info, the artist/title/version
\* parsed from its title, the effective genre/energy/time/vibe, the
\* separator flag, the working directory, the output directory and the
\* batch request.
C11_DownloadFailureContext ==
  \A j \in Jobs : \A t \in TasksOf(j) :
    DownloadFailed(t) =>
      /\ pc[t] = "upload_needed"
      /\ FirstOfTypes(ItemLog(t), TerminalTypes).type = "item-upload-needed"
      /\ StoredCtx(t) # NoCtx
      /\ StoredCtx(t).job_id = j
      /\ StoredCtx(t).item_id = ItemOf(t).id
      /\ StoredCtx(t).info = mock.info
      /\ StoredCtx(t).normalized = NormalizeTitle(mock.info.title, mock.info.uploader)
      /\ StoredCtx(t).classification = EffectiveTags(ItemOf(t).preset_snapshot, mock.auto)
      /\ StoredCtx(t).title_had_separator = HadSeparator(mock.info.title)
      /\ StoredCtx(t).work_dir = WorkDirOf(UrlSourceId(ItemOf(t).url))
      /\ StoredCtx(t).inbox_dir = req[j].inbox_dir
      /\ StoredCtx(t).req = req[j]

\* C11 witness: a download failed for a video titled "ARTBAT - Flame" with
\* an explicit preset; the pending context has the parsed artist and the
\* preset's genre, with the classifier's time slot filling the empty one.
C11_Witness ==
  \E j \in Jobs : \E t \in TasksOf(j) :
    /\ DownloadFailed(t)
    /\ rpc[t] = "none"
    /\ pending_uploads[ItemOf(t).id].normalized.artist = <<"ARTBAT">>
    /\ pending_uploads[ItemOf(t).id].normalized.title = <<"Flame">>
    /\ pending_uploads[ItemOf(t).id].title_had_separator
    /\ pending_uploads[ItemOf(t).id].classification = DJTags("Afro House", "Low", "Peak", "Dark")

\* C12 (as claimed): the working directory of an item is gone once its
\* batch run has ended in item-done or item-error, and is still there while
\* the item waits in upload-needed for its resume.
C12_WorkDirKeptForResume ==
  \A j \in Jobs : \A t \in TasksOf(j) :
    LET work_dir == WorkDirOf(UrlSourceId(ItemOf(t).url)) IN
    /\ pc[t] \in {"done", "error"} => work_dir \notin work_dirs
    /\ (pc[t] = "upload_needed" /\ rpc[t] = "none") => work_dir \in work_dirs

\* Everything but the response of the upload endpoint.
allButResponse ==
  <<req, bpc, cancel_requested, history, completed_ids, sem, pc,
    pending_uploads, work_dirs, sidecars, library_tracks, rpc, rctx,
    calls, rcalls, mock, subscribers, emitted, joined_at,
                     jobs, cancel_returned, received>>

\* C13: a step of upload_audio_for_item for an item id that has no pending
\* context returns the "no pending context" error and changes nothing else:
\* no context is created, no event is broadcast, no resumed run is started.
C13_NoContextRefused ==
  [][\A i \in ItemIds, j \in Jobs, ext_allowed \in BOOLEAN :
       (pending_uploads[i] = NoCtx /\ UploadRequest(i, j, ext_allowed)) =>
          /\ response' = "no-pending-context"
          /\ UNCHANGED allButResponse]_vars

\* C13 witness: a request was refused for want of a context while the
\* batch was running and the context of a failed item is pending.
C13_Witness ==
  /\ response = "no-pending-context"
  /\ \E i \in ItemIds : pending_uploads[i] # NoCtx
  /\ \E j \in Jobs : bpc[j] = "gathering"

\* C14: a step of upload_audio_for_item with a refused file extension for
\* an item id that has a pending context returns the "unsupported file
\* type" error and leaves everything else as it was: the context is still
\* pending, unchanged, no resumed run holds it, no event is broadcast; a
\* later request with an allowed file therefore finds what the first found.
C14_BadExtensionRestores ==
  [][\A i \in ItemIds, j \in Jobs :
       (pending_uploads[i] # NoCtx /\ UploadRequest(i, j, FALSE)) =>
          /\ response' = "unsupported-file-type"
          /\ UNCHANGED allButResponse
          /\ pending_uploads'[i] # NoCtx
          /\ rpc'[pending_uploads'[i].origin] = "none"]_vars

\* C14 witness: a request was refused for its file extension and the
\* context it named is pending.
C14_Witness ==
  /\ response = "unsupported-file-type"
  /\ \E i \in ItemIds : pending_uploads[i] # NoCtx

\* Every collaborator call of the run resumed from the context of t
\* returned, through the database commit.
ResumeAllSucceeded(t) ==
  /\ rcalls[t] # <<>>
  /\ \A k \in DOMAIN rcalls[t] : rcalls[t][k].result = "ok"
  /\ rcalls[t][Len(rcalls[t])].stage = "persist"

\* The library rows written for the item of t.
RowsOf(t) ==
  {row \in library_tracks : row.job_id = t[1] /\ row.item_id = ItemOf(t).id}

\* C15 (as claimed): after a download failure of an item, a resumed run
\* whose stages all succeed ends with item-done for the item, and the
\* artist and title of the row it finalized are those of the stored context.
C15_ResumeRoundTrip ==
  \A j \in Jobs : \A t \in TasksOf(j) :
    (DownloadFailed(t) /\ rpc[t] \in ResumeFinished /\ ResumeAllSucceeded(t)) =>
      /\ ItemLog(t)[Len(ItemLog(t))].type = "item-done"
      /\ RowsOf(t) # {}
      /\ \A row \in RowsOf(t) :
           /\ row.artist = rctx[t].normalized.artist
           /\ row.title = rctx[t].normalized.title

RECURSIVE AfterFirstOfTypes(_, _)
\* What follows the first event of log with a type in types.
AfterFirstOfTypes(log, types) ==
  IF log = <<>> THEN <<>>
  ELSE IF Head(log).type \in types THEN Tail(log)
  ELSE AfterFirstOfTypes(Tail(log), types)

\* The events of the run resumed from the context of t: those that follow
\* the terminal event of the batch run in the item's history.
ResumeLog(t) == AfterFirstOfTypes(ItemLog(t), TerminalTypes)

\* The stages named by the progress events of log, in order.
ProgressStages(log) ==
  LET sel == SelectSeq(log, LAMBDA e : e.type = "item-progress") IN
  [k \in 1..Len(sel) |-> sel[k].stage]

IsPrefix(s, full) ==
  Len(s) <= Len(full) /\ \A k \in 1..Len(s) : s[k] = full[k]

\* The stage order of a resumed run, on either branch of stage 5.
ResumeStageOrders ==
  {<<"fingerprint", "analysis", "normalize", "tag", "finalize">>,
   <<"fingerprint", "analysis", "transcode", "tag", "finalize">>}

\* The order in which a resumed run calls its collaborators.
ResumeCallRank(stage) ==
  CASE stage = "thumbnail" -> 0
    [] stage = "fingerprint" -> 1
    [] stage = "analysis" -> 2
    [] stage \in {"normalize", "transcode"} -> 3
    [] stage = "tag" -> 4
    [] stage = "persist" -> 5
    [] OTHER -> -1

\* The resumed run of t has started running.
ResumeRunning(t) == rpc[t] \notin {"none", "reading", "scheduled"}

\* C16: a resumed run begins with item-start and progress("fingerprint"):
\* it broadcasts no progress for metadata, classify or download and calls
\* neither the metadata fetch nor the download; its progress events follow
\* the order fingerprint, analysis, normalize or transcode, tag, finalize,
\* its collaborator calls follow the same order; and every event it
\* broadcasts carries the job id and item id of the context, which are those
\* of the batch run that stored it.
C16_ResumeFromFingerprint ==
  \A j \in Jobs : \A t \in TasksOf(j) :
    ResumeRunning(t) =>
      LET log == ResumeLog(t) IN
      /\ rctx[t].job_id = j /\ rctx[t].item_id = ItemOf(t).id
      /\ log # <<>> /\ log[1].type = "item-start"
      /\ \A k \in DOMAIN log :
           /\ log[k].job_id = rctx[t].job_id
           /\ log[k].item_id = rctx[t].item_id
           /\ log[k].stage \notin {"metadata", "classify", "download"}
      /\ \E order \in ResumeStageOrders : IsPrefix(ProgressStages(log), order)
      /\ \A k \in DOMAIN rcalls[t] :
           /\ ResumeCallRank(rcalls[t][k].stage) >= 0
           /\ k > 1 => ResumeCallRank(rcalls[t][k - 1].stage) < ResumeCallRank(rcalls[t][k].stage)

\* C16 witness: a run resumed after a download failure went through all its
\* stages: item-start, five progress events and its terminal event.
C16_Witness ==
  \E j \in Jobs : \E t \in TasksOf(j) :
    /\ DownloadFailed(t)
    /\ rpc[t] \in ResumeFinished
    /\ ResumeAllSucceeded(t)
    /\ Len(ResumeLog(t)) = 7
    /\ ProgressStages(ResumeLog(t)) \in ResumeStageOrders

\* C17: from the moment an upload is accepted, no context is pending under
\* the item id (the resumed run stores none); the working directory named
\* by the context exists while the resumed run is under way and is gone
\* once the run has ended, with item-done or with item-error.
C17_ResumeCleansUp ==
  \A j \in Jobs : \A t \in TasksOf(j) :
    rpc[t] # "none" =>
      /\ pending_uploads[rctx[t].item_id] = NoCtx
      /\ rpc[t] \notin ResumeFinished => rctx[t].work_dir \in work_dirs
      /\ rpc[t] \in ResumeFinished => rctx[t].work_dir \notin work_dirs

\* C17 witness: two resumed runs have ended, one after a collaborator
\* raised, one after its database commit returned.
C17_Witness ==
  \E j \in Jobs : \E t, u \in TasksOf(j) :
    /\ rpc[t] \in ResumeFinished /\ rpc[u] \in ResumeFinished
    /\ rcalls[t] # <<>> /\ rcalls[t][Len(rcalls[t])].result = "raised"
    /\ ResumeAllSucceeded(u)

\* The events numbered from..to of job j, in emission order.
EventsOf(j, from, to) == [k \in 1..(to - from + 1) |-> TestEvt(j, from + k - 1)]

Min(a, b) == IF a <= b THEN a ELSE b

\* C20: the history of a job never holds more than HISTORY_CAP events, and
\* it holds the most recent ones in emission order: all of them up to the
\* cap, and after cap+K broadcasts the events K+1..cap+K, the K oldest
\* having been dropped.
C20_HistoryCapped ==
  \A j \in Jobs :
    /\ HistoryLen(history[j]) <= HISTORY_CAP
    /\ j \in BusJobs =>
         HistoryOf(history[j]) =
           EventsOf(j, emitted[j] - Min(emitted[j], HISTORY_CAP) + 1, emitted[j])

\* C20 witness: cap+ExtraBroadcasts events were broadcast; the history is
\* full and its oldest event is the one numbered ExtraBroadcasts+1.
C20_Witness ==
  \E j \in BusJobs :
    /\ emitted[j] = HISTORY_CAP + ExtraBroadcasts
    /\ Len(history[j].job) = HISTORY_CAP
    /\ history[j].job[1].data = ExtraBroadcasts + 1

\* The clients subscribed to job j.
SubscribersOf(j) == DOMAIN subscribers[j]

\* C18 (as claimed): the queue of a subscriber that subscribed before the
\* first broadcast and consumed nothing holds all the N events broadcast
\* since, in emission order, whatever N is.
C18_QueueHoldsAllBroadcasts ==
  \A j \in BusJobs : \A c \in SubscribersOf(j) :
    joined_at[c] = 0 => subscribers[j][c] = EventsOf(j, 1, emitted[j])

\* C18 (amended): that queue holds the N events in emission order as long
\* as N is at most QUEUE_MAXSIZE; from then on it holds the first
\* QUEUE_MAXSIZE events, the later ones having been dropped for it.
C18_QueueHoldsFirstBroadcasts ==
  \A j \in BusJobs : \A c \in SubscribersOf(j) :
    joined_at[c] = 0 =>
      subscribers[j][c] = EventsOf(j, 1, Min(emitted[j], QUEUE_MAXSIZE))

\* C18 witness: a subscriber of the first hour whose queue is full, more
\* events having been broadcast than it can hold.
C18_Witness ==
  \E j \in BusJobs : \E c \in SubscribersOf(j) :
    /\ joined_at[c] = 0
    /\ emitted[j] > QUEUE_MAXSIZE
    /\ Len(subscribers[j][c]) = QUEUE_MAXSIZE

\* C19: the queue of a subscriber that joined after M broadcasts and
\* consumed nothing holds, as long as no more than QUEUE_MAXSIZE events
\* were broadcast in all, the M events replayed followed by the events
\* broadcast since: every event once, in emission order, none missing.
C19_ReplayThenLive ==
  \A j \in BusJobs : \A c \in SubscribersOf(j) :
    emitted[j] <= QUEUE_MAXSIZE =>
      /\ subscribers[j][c] = EventsOf(j, 1, emitted[j])
      /\ SubSeq(subscribers[j][c], 1, joined_at[c]) = EventsOf(j, 1, joined_at[c])

\* C19 witness: a subscriber that joined after some events holds them and
\* later ones.
C19_Witness ==
  \E j \in BusJobs : \E c \in SubscribersOf(j) :
    /\ joined_at[c] >= 2
    /\ emitted[j] >= joined_at[c] + 2
    /\ emitted[j] <= QUEUE_MAXSIZE
    /\ Len(subscribers[j][c]) = emitted[j]


\* C21: a broadcast is one step; it appends the event to the history, puts
\* it at the end of every subscriber queue that has room, and leaves every
\* full queue exactly as it was.
C21_FullQueueLosesOnlyItsEvent ==
  [][\A j \in BusJobs :
       BusBroadcast(j) =>
         LET e == TestEvt(j, emitted[j] + 1) IN
         /\ HistoryOf(history'[j]) = Append(HistoryOf(history[j]), e)
         /\ DOMAIN subscribers'[j] = DOMAIN subscribers[j]
         /\ \A c \in DOMAIN subscribers[j] :
              IF Len(subscribers[j][c]) = QUEUE_MAXSIZE
              THEN subscribers'[j][c] = subscribers[j][c]
              ELSE subscribers'[j][c] = Append(subscribers[j][c], e)]_vars

\* One subscriber's queue is full and missed the latest event, which is in
\* the history and at the end of another subscriber's queue.
C21_Witness ==
  \E j \in BusJobs : \E c, d \in DOMAIN subscribers[j] :
    LET qc == subscribers[j][c]
        qd == subscribers[j][d]
        h == HistoryOf(history[j]) IN
    /\ Len(qc) = QUEUE_MAXSIZE
    /\ qc[Len(qc)].data < emitted[j]
    /\ Len(qd) > 0
    /\ qd[Len(qd)].data = emitted[j]
    /\ h[Len(h)].data = emitted[j]


\* C22: unsubscribe(job, c) takes c out of the job's subscribers and
\* changes nothing else: the history, the cancellation flags, and the id
\* and queue content of every other subscriber stay as they were; for an
\* id that is not registered the whole state is unchanged; and an id that
\* was removed is never a subscriber again, so no later broadcast is
\* delivered to it.
C22_UnsubscribeRemovesOne ==
  [][\A j \in BusJobs, c \in ClientIds :
       /\ Unsubscribe(j, c) =>
            /\ DOMAIN subscribers'[j] = DOMAIN subscribers[j] \ {c}
            /\ \A d \in DOMAIN subscribers'[j] :
                 subscribers'[j][d] = subscribers[j][d]
            /\ history' = history
            /\ cancel_requested' = cancel_requested
            /\ c \notin DOMAIN subscribers[j] => UNCHANGED vars
       /\ (joined_at[c] >= 0 /\ c \notin DOMAIN subscribers[j])
            => c \notin DOMAIN subscribers'[j]]_vars

\* A client was removed while another one stays subscribed to the cancelled
\* job, and the remaining queue ends with a broadcast the removed client
\* was not registered for at first.
C22_Witness ==
  \E j \in BusJobs, c \in ClientIds : \E d \in DOMAIN subscribers[j] :
    LET qd == subscribers[j][d] IN
    /\ joined_at[c] >= 0
    /\ c \notin DOMAIN subscribers[j]
    /\ cancel_requested[j]
    /\ Len(qd) > 0
    /\ qd[Len(qd)].data = emitted[j]
    /\ emitted[j] > joined_at[c]


\* C23: cancel_job(j) on a registered job returns True and sets that job's
\* flag, leaving the flag of every other job as it was; on any other id it
\* returns False and no job changes; and no step of any operation takes a
\* set flag back to unset.
C23_CancelSetsFlagForGood ==
  [][\A j \in Jobs :
       /\ CancelJob(j) =>
            IF j \in jobs
            THEN /\ cancel_returned'[j] = "True"
                 /\ cancel_requested'[j]
                 /\ \A k \in Jobs \ {j} :
                      cancel_requested'[k] = cancel_requested[k]
            ELSE /\ cancel_returned'[j] = "False"
                 /\ UNCHANGED <<jobs, cancel_requested, history, subscribers,
                                completed_ids, bpc>>
       /\ cancel_requested[j] => cancel_requested'[j]]_vars

\* jobA's batch was cancelled with success and has run to its end with a
\* resumed item, and a cancel for the unknown id jobB was refused.
C23_Witness ==
  /\ cancel_returned["jobA"] = "True"
  /\ cancel_requested["jobA"]
  /\ BatchEnded("jobA")
  /\ \E t \in Tasks : rpc[t] \in {"done", "error"}
  /\ cancel_returned["jobB"] = "False"
  /\ ~cancel_requested["jobB"]
  /\ "jobB" \notin jobs


\* C24: a created job is found by get_job, with its history, in every state
\* until cleanup_job is called with its id: the only step that makes
\* get_job(j) go from the job to not-found removes exactly j from the
\* registry and changes nothing else, every other step of a registered job
\* (broadcasts of its batch and its resumes, subscribe, unsubscribe,
\* cancel) leaves it registered with get_job returning its current
\* history, and after cleanup_job(j) get_job(j) is not-found.
C24_OnlyCleanupDestroys ==
  [][\A j \in Jobs :
       /\ CreateJob(j) => GetJob(j)' # None
       /\ (j \in jobs /\ j \notin jobs') =>
            /\ jobs' = jobs \ {j}
            /\ UNCHANGED <<req, bpc, cancel_requested, history, completed_ids,
                           sem, pc, pending_uploads, work_dirs, sidecars,
                           library_tracks, rpc, rctx, response, calls, rcalls,
                           subscribers, emitted, joined_at, cancel_returned,
                           received>>
       /\ (j \in jobs /\ j \in jobs') =>
            /\ GetJob(j)' # None
            /\ GetJob(j)'.history = history'[j]
            /\ IsPrefix(history[j].job, history'[j].job)
       /\ CleanupJob(j) => GetJob(j)' = None
       /\ HasBatch(j) => j \in jobs]_vars

\* jobA is still registered, with the events of its batch and of a resumed
\* run in its history, after the batch has ended; jobB was created, had a
\* client subscribe and unsubscribe, and was cleaned up.
C24_Witness ==
  /\ BatchEnded("jobA")
  /\ \E t \in Tasks : rpc[t] \in ResumeFinished
  /\ GetJob("jobA") # None
  /\ Len(GetJob("jobA").history.job) > 0
  /\ bpc["jobB"] = "created"
  /\ GetJob("jobB") = None
  /\ \E c \in ClientIds : joined_at[c] >= 0 /\ c \notin DOMAIN subscribers["jobB"]


\* What the stream of client c on job j has yielded, followed by what is
\* waiting in its queue.
StreamSeen(j, c) ==
  received[c] \o (IF c \in DOMAIN subscribers[j] THEN subscribers[j][c] ELSE <<>>)

\* The stream yields events of the job in emission order, the replayed
\* history first and all of them while the queue capacity is not exceeded,
\* and queue-done is the last thing it yields: the client is unsubscribed
\* with it.
StreamDelivery ==
  \A j \in BusJobs, c \in BusClients :
    joined_at[c] >= 0 =>
      LET seen == StreamSeen(j, c)
          h == HistoryOf(history[j])
          replayed == Min(joined_at[c], QUEUE_MAXSIZE) IN
      /\ \A k \in 1..Len(seen) : seen[k] = h[seen[k].data]
      /\ \A k \in 1..(Len(seen) - 1) : seen[k].data < seen[k + 1].data
      /\ \A k \in 1..Min(replayed, Len(seen)) : seen[k].data = k
      /\ (c \in DOMAIN subscribers[j] /\ emitted[j] <= QUEUE_MAXSIZE) => seen = h
      /\ \A k \in 1..Len(received[c]) :
           IsQueueDone(received[c][k]) =>
             k = Len(received[c]) /\ c \notin DOMAIN subscribers[j]

HoldsQueueDone(j, c) ==
  /\ c \in DOMAIN subscribers[j]
  /\ \E k \in 1..Len(subscribers[j][c]) : IsQueueDone(subscribers[j][c][k])

RECURSIVE UpToFirstOfTypes(_, _)
\* log up to and including its first event with a type in types.
UpToFirstOfTypes(log, types) ==
  IF log = <<>> THEN <<>>
  ELSE IF Head(log).type \in types THEN <<Head(log)>>
  ELSE <<Head(log)>> \o UpToFirstOfTypes(Tail(log), types)

\* The events of the batch run of t: the item's history through its first
\* terminal event.
BatchLog(t) == UpToFirstOfTypes(ItemLog(t), TerminalTypes)

\* The type and stage of each event of log.
Shape(log) == [k \in 1..Len(log) |-> <<log[k].type, log[k].stage>>]

\* item-start followed by one item-progress per stage, on either branch of
\* the normalize-or-transcode stage.
PipelineOrders ==
  {<<<<"item-start", "">>>> \o [k \in 1..8 |-> <<"item-progress", stages[k]>>] :
     stages \in {<<"metadata", "classify", "download", "fingerprint", "analysis",
                   "normalize", "tag", "finalize">>,
                 <<"metadata", "classify", "download", "fingerprint", "analysis",
                   "transcode", "tag", "finalize">>}}

\* The events of a run that has ended are a prefix of the pipeline order
\* followed by one terminal event.
PrefixThenTerminal(log) ==
  /\ log # <<>>
  /\ log[Len(log)].type \in TerminalTypes
  /\ \E order \in PipelineOrders :
       IsPrefix(Shape(SubSeq(log, 1, Len(log) - 1)), order)

\* C26 (as claimed): the events of the batch run of an item are a prefix of
\* item-start, progress metadata, classify, download, fingerprint,
\* analysis, normalize or transcode, tag, finalize, followed by the
\* terminal event; when all stages succeeded the prefix is the whole
\* sequence and the terminal event is item-done.
C26_PipelineOrder ==
  \A j \in Jobs : \A t \in TasksOf(j) :
    pc[t] \in Finished =>
      LET log == BatchLog(t) IN
      /\ PrefixThenTerminal(log)
      /\ AllStagesSucceeded(t) =>
           /\ Shape(SubSeq(log, 1, Len(log) - 1)) \in PipelineOrders
           /\ log[Len(log)].type = "item-done"


\* The merge policy for one field: the preset value unless it is empty or
\* the field's unset sentinel, else the automatic value unless it is empty,
\* else the field's unknown value.
Merge(preset_value, sentinel, auto_value, unknown) ==
  IF preset_value \notin {"", sentinel} THEN preset_value
  ELSE IF auto_value # "" THEN auto_value
  ELSE unknown

\* The policy applied to the four fields: genre has the sentinel and the
\* unknown value "Other", the other fields the empty string.
MergedTags(preset, auto) ==
  DJTags(Merge(preset.genre, "Other", auto.genre, "Other"),
         Merge(preset.energy, "", auto.energy, ""),
         Merge(preset.time, "", auto.time, ""),
         Merge(preset.vibe, "", auto.vibe, ""))

\* The automatic values available for the item of t: none when its
\* metadata could not be fetched, the classifier was then never run.
AutoOf(t) == IF MetadataFailed(t) THEN AutoNothing ELSE mock.auto

\* C27: the genre, energy, time and vibe of every library row and sidecar
\* written for an item, and of every context stored for it, are the merge of
\* the item's preset with the automatic values; in particular preset genre
\* "Afro House" with automatic "Techno" gives "Afro House", and preset
\* "Other" with automatic "Techno" gives "Techno".
C27_EffectiveValues ==
  \A j \in Jobs : \A t \in TasksOf(j) :
    LET preset == ItemOf(t).preset_snapshot
        want == MergedTags(preset, AutoOf(t)) IN
    /\ \A row \in RowsOf(t) :
         /\ DJTags(row.genre, row.energy, row.time_slot, row.vibe) = want
         /\ (preset.genre = "Afro House" /\ AutoOf(t).genre = "Techno")
              => row.genre = "Afro House"
         /\ (preset.genre = "Other" /\ AutoOf(t).genre = "Techno")
              => row.genre = "Techno"
    /\ \A sc \in sidecars :
         (sc.job_id = j /\ sc.item_id = ItemOf(t).id) => sc.djDefaults = want
    /\ StoredCtx(t) # NoCtx => StoredCtx(t).classification = want

\* A row was finalized with the classifier's genre "Techno" because the
\* preset genre was the sentinel, and with the preset's energy.
C27_Witness ==
  \E j \in Jobs : \E t \in TasksOf(j) : \E row \in RowsOf(t) :
    /\ ItemOf(t).preset_snapshot.genre = "Other"
    /\ ItemOf(t).preset_snapshot.energy = "Low"
    /\ mock.auto = AutoTechno
    /\ row.genre = "Techno"
    /\ row.energy = "Low"
    /\ row.time_slot = "Peak"


Stage5 == {"normalize", "transcode"}

\* The stage-5 announcements of log, in order.
Stage5Announced(log) ==
  SelectSeq(ProgressStages(log), LAMBDA s : s \in Stage5)

\* The stage-5 collaborators a run has called, from its recorded calls and
\* its position.
Stage5Called(cs, at) ==
  {s \in Stage5 : at = s \/ \E k \in DOMAIN cs : cs[k].stage = s}

\* The run is past the choice between normalize and transcode.
PastStage5Choice(cs, at) ==
  LET after == Stage5 \cup {"tag", "persist"} IN
  at \in after \/ \E k \in DOMAIN cs : cs[k].stage \in after

\* C28: a run (batch or resumed) that is past the choice has announced
\* exactly one of normalize and transcode, once: normalize if and only if
\* normalization is enabled and the mode is dj-safe, transcode otherwise;
\* the other stage is never announced and its collaborator never called.
C28_NormalizeXorTranscode ==
  \A j \in Jobs : \A t \in TasksOf(j) :
    LET chosen == IF req[j].normalize_enabled /\ req[j].mode = "dj-safe"
                  THEN "normalize" ELSE "transcode"
        batch == Stage5Announced(BatchLog(t))
        resumed == Stage5Announced(ResumeLog(t)) IN
    /\ batch \in {<<>>, <<chosen>>}
    /\ resumed \in {<<>>, <<chosen>>}
    /\ Stage5Called(calls[t], pc[t]) \subseteq {chosen}
    /\ Stage5Called(rcalls[t], rpc[t]) \subseteq {chosen}
    /\ PastStage5Choice(calls[t], pc[t]) => batch = <<chosen>>
    /\ PastStage5Choice(rcalls[t], rpc[t]) => resumed = <<chosen>>

\* With normalization enabled but the mode fast, a batch run has announced
\* and called transcode, not normalize, and has ended.
C28_Witness ==
  \E j \in Jobs : \E t \in TasksOf(j) :
    /\ req[j].normalize_enabled /\ req[j].mode = "fast"
    /\ pc[t] \in Finished
    /\ Stage5Announced(BatchLog(t)) = <<"transcode">>
    /\ \E k \in DOMAIN calls[t] : calls[t][k].stage = "transcode"
    /\ \A k \in DOMAIN calls[t] : calls[t][k].stage # "normalize"


\* C29 (as claimed): when run_pipeline has ended it has returned normally
\* with queue-done as the last job-level event; the export has left at most
\* one warning event, and only in a batch in which an item completed.
C29_ExportNeverFatal ==
  \A j \in Jobs :
    BatchEnded(j) =>
      LET log == history[j].job IN
      /\ bpc[j] = "done"
      /\ log # <<>> /\ log[Len(log)].type = "queue-done"
      /\ CountTypes(log, {"warning"}) <= 1
      /\ CountTypes(log, {"warning"}) = 1 => completed_ids[j] # <<>>

\* C30 (as claimed): a batch run whose stages all succeeded has ended with
\* item-done, and by then the item's sidecar is written, its library row is
\* persisted and its record id is in the job's completed_ids.
C30_ItemDoneAfterPersistence ==
  \A j \in Jobs : \A t \in TasksOf(j) :
    (pc[t] \in Finished /\ AllStagesSucceeded(t)) =>
      LET log == BatchLog(t) IN
      /\ log[Len(log)].type = "item-done"
      /\ \E sc \in sidecars : sc.job_id = j /\ sc.item_id = ItemOf(t).id
      /\ RowsOf(t) # {}
      /\ completed_ids[j] # <<>>

\* The events a step appended to the log of item i of job j.
Appended(j, i) ==
  SubSeq(history'[j].item[i], Len(history[j].item[i]) + 1, Len(history'[j].item[i]))

\* A step of the batch run of some item of job j: the position of one of its
\* item tasks changes.
BatchItemStep(j) == \E t \in TasksOf(j) : pc'[t] # pc[t]

\* C38: once the cancellation flag of a job is set, no step of the batch
\* Item Processor appends an item-progress event for any item of that job,
\* also when the step starts a stage that still runs; the events such a step
\* appends are item-start and terminal events only.
C38_NoBatchProgressAfterCancel ==
  [][\A j \in Jobs :
       (cancel_requested[j] /\ BatchItemStep(j)) =>
         \A i \in ItemIds :
           /\ IsPrefix(history[j].item[i], history'[j].item[i])
           /\ \A k \in DOMAIN Appended(j, i) :
                Appended(j, i)[k].type \in {"item-start"} \cup TerminalTypes]_vars

\* The flag is set, and the batch run of an item went on to the analysis
\* after it was set: the analysis was called and was not announced.
C38_Witness ==
  \E t \in TasksOf("jobA") :
    /\ cancel_requested["jobA"]
    /\ rpc[t] = "none"
    /\ \E k \in DOMAIN calls[t] : calls[t][k].stage = "analysis"
    /\ \A k \in DOMAIN ItemLog(t) :
         ItemLog(t)[k].stage # "analysis"

\* The positions of a resumed run that correspond to the cancellation checks
\* of a batch run: before its first stage, before the fingerprint and before
\* stage 5.
ResumeCheckpoints == {"scheduled", "thumbnail", "analysis"}

\* C36 (as claimed): when the cancellation flag of its job is set as a
\* resumed run starts, or as it passes from one stage to the next where a
\* batch run checks the flag, the resumed run starts no further stage and
\* ends with item-error "Cancelled".
C36_ResumeHonoursCancel ==
  [][\A o \in Tasks :
       (/\ rpc[o] \in ResumeCheckpoints
        /\ rpc'[o] # rpc[o]
        /\ cancel_requested[rctx[o].job_id]) =>
         /\ rpc'[o] = "error"
         /\ HasEvent(Appended(rctx[o].job_id, rctx[o].item_id),
                     "item-error", CancelledMsg)]_vars

C35_OneResumePerContext ==
  /\ [](\A i \in ItemIds :
          pending_uploads[i] # NoCtx => rpc[pending_uploads[i].origin] = "none")
  /\ [][/\ \A o \in Tasks :
             /\ (rpc[o] = "none" /\ rpc'[o] # "none") =>
                   /\ rpc'[o] = "reading"
                   /\ pending_uploads[rctx'[o].item_id] = rctx'[o]
                   /\ pending_uploads'[rctx'[o].item_id] = NoCtx
             /\ rpc[o] # "none" => (rpc'[o] \notin {"none", "reading"} \/ rpc'[o] = rpc[o])
             /\ rpc[o] # "none" => rctx'[o] = rctx[o]
        /\ \A i \in ItemIds, j \in Jobs :
             (/\ \E o \in Tasks : rpc[o] = "reading" /\ rctx[o].item_id = i
              /\ UploadRequest(i, j, TRUE)) =>
                /\ response' = "no-pending-context"
                /\ UNCHANGED allButResponse]_vars

\* An accepted upload is reading its file, and a second request for the same
\* item was answered with the no-pending-context error.
C35_Witness ==
  \E o \in Tasks :
    /\ rpc[o] = "reading"
    /\ pending_uploads[rctx[o].item_id] = NoCtx
    /\ response = "no-pending-context"

\* The item tasks of batch runs that are in flight for item id i, and the
\* resumed runs (from the accepted upload on) that are.
BatchRunsOf(i) ==
  {t \in Tasks : t \in TasksOf(t[1]) /\ pc[t] \in InFlight /\ ItemOf(t).id = i}
ResumedRunsOf(i) ==
  {o \in Tasks : rpc[o] \notin {"none"} \cup ResumeFinished /\ rctx[o].item_id = i}

\* C31 (as claimed): in every state an item id has at most one Item
\* Processor task in flight, batch runs and resumed runs taken together.
\* (The map of pending contexts has one entry per key by construction.)
C31_OneTaskPerItemId ==
  \A i \in ItemIds : Cardinality(BatchRunsOf(i)) + Cardinality(ResumedRunsOf(i)) <= 1

\* C33 (as claimed): a pending context is never replaced by a context of
\* another job, and an upload request that names another job than the one of
\* the pending context neither takes the context nor starts a resumed run.
C33_ContextsOfJobsSeparate ==
  [][/\ \A i \in ItemIds :
          (pending_uploads[i] # NoCtx /\ pending_uploads'[i] # NoCtx) =>
             pending_uploads'[i].job_id = pending_uploads[i].job_id
     /\ \A i \in ItemIds, j \in Jobs :
          (/\ pending_uploads[i] # NoCtx
           /\ pending_uploads[i].job_id # j
           /\ UploadRequest(i, j, TRUE)) =>
             /\ pending_uploads'[i] = pending_uploads[i]
             /\ rpc' = rpc]_vars

\* The working directories in use: by a batch item task from the moment it
\* made its directory until its cleanup, and by an upload handler or resumed
\* run from the accepted upload until its cleanup.
DirsInUse(pcs, rpcs) ==
  {WorkDirOf(UrlSourceId(ItemOf(t).url)) :
     t \in {u \in Tasks : u \in TasksOf(u[1]) /\
                          pcs[u] \in InFlight \ {"metadata"}}}
  \cup {rctx[o].work_dir : o \in {u \in Tasks : rpcs[u] \notin {"none"} \cup ResumeFinished}}

\* C34 (as claimed): no step removes a working directory that an item task
\* or resumed run still in flight after the step uses.
C34_CleanupLeavesOthersDirs ==
  [][\A d \in work_dirs \ work_dirs' : d \notin DirsInUse(pc', rpc')]_vars

\* The runs resumed for items of job j that _resume_pipeline is executing.
ResumedActive(j) ==
  {o \in Tasks : ResumeRunning(o) /\ rpc[o] \notin ResumeFinished /\ rctx[o].job_id = j}

\* C37 (as claimed): the batch runs of a job that hold the semaphore and
\* its resumed runs under way are together at most MAX_CONCURRENT.
C37_AtMostThreeRunsWithResumes ==
  \A j \in Jobs :
    Cardinality(Admitted(j)) + Cardinality(ResumedActive(j)) <= MAX_CONCURRENT

\* The most events one item of a batch can cause: its batch run up to a
\* failed download (item-start, progress for metadata, classify and download,
\* item-upload-needed), then the whole resumed run (item-start, five progress
\* events, its terminal event).  A batch run that is not suspended broadcasts
\* item-start, eight progress events and its terminal event.
ItemEventsMax == 5 + 7

\* The job-level events of a batch: queue-start, the warning of a failed
\* export, queue-done.
JobEventTypes == {"queue-start", "warning", "queue-done"}

\* The most events a batch of n items can cause, every resume included.
EventsMax(n) == ItemEventsMax * n + Cardinality(JobEventTypes)

\* C39: the events broadcast for a job with a batch of n items, every
\* resume included, never exceed EventsMax(n); for the largest valid batch
\* that number is below the capacity of a subscriber queue, which is below
\* the history cap; so the history still holds every event broadcast, and
\* the replay of a late subscriber hands over all of it.
C39_EventsBelowQueueCapacity ==
  /\ \A j \in Jobs :
       /\ HistoryLen(history[j]) <= EventsMax(Len(req[j].items))
       /\ Len(history[j].job) <= Cardinality(JobEventTypes)
       /\ Replay(history[j].job) = history[j].job
  /\ EventsMax(MAX_ITEMS) < QUEUE_MAXSIZE
  /\ QUEUE_MAXSIZE <= HISTORY_CAP

\* Every item of the batch was suspended after its download failed and was
\* resumed to its end: each caused the most events an item can.
C39_Witness ==
  /\ \A t \in TasksOf("jobA") :
       /\ DownloadFailed(t)
       /\ rpc[t] \in ResumeFinished
       /\ Len(ItemLog(t)) = ItemEventsMax
  /\ HistoryLen(history["jobA"]) = ItemEventsMax * Len(req["jobA"].items) + 1

====
